---- MODULE Spec2Model ----
(***************************************************************************)
(* State-machine model of the gpu-alloc sub-allocator: GpuAllocator with   *)
(* its Dedicated, Linear and Buddy strategies, the per-heap accounting and *)
(* the memory device it is driven against.                                 *)
(*                                                                         *)
(* Machine integers (u64, u32, usize) are modelled as words of WordBits    *)
(* bits: TLC's integers are 32 bit wide, so the width is scaled            *)
(* down while wrap-around, bitwise NOT and checked arithmetic keep their   *)
(* meaning relative to the word.                                           *)
(*                                                                         *)
(* Rust indices start at 0; Option<T> is a sequence of length 0 or 1,      *)
(* Option<integer> is the integer or NoneIdx.                              *)
(*                                                                         *)
(* Three specifications share the variables: Spec runs alloc and dealloc   *)
(* on one allocator, SpecNew applies GpuAllocator::new to a Config and     *)
(* DeviceProperties drawn from bounded sets, SpecBlock runs map, unmap,    *)
(* write_bytes and read_bytes on one MemoryBlock.                          *)
(***************************************************************************)
EXTENDS Integers, Sequences, FiniteSets, Bags, TLC

\* ------------------------------------------------------------------ bounds
WordBits == 16
MaxObjects == 3
MaxBlocks == 2
MaxFifo == 3
MaxPairs == 4
MaxOffset == 12
MaxMapOffset == 3
MaxMapSize == 4

\* ------------------------------------------------------- machine integers
RECURSIVE Pow2(_)
Pow2(n) == IF n = 0 THEN 1 ELSE 2 * Pow2(n - 1)

WordMax == Pow2(WordBits) - 1

NoneIdx == 0 - 1

RECURSIVE BitAnd(_, _)
BitAnd(a, b) ==
    IF a = 0 \/ b = 0 THEN 0
    ELSE ((a % 2) * (b % 2)) + 2 * BitAnd(a \div 2, b \div 2)

RECURSIVE BitOr(_, _)
BitOr(a, b) ==
    IF a = 0 THEN b
    ELSE IF b = 0 THEN a
    ELSE (IF (a % 2) + (b % 2) > 0 THEN 1 ELSE 0) + 2 * BitOr(a \div 2, b \div 2)

BitNot(a) == WordMax - a

\* u64::trailing_zeros: the word width for 0.
RECURSIVE trailing_zeros(_)
trailing_zeros(x) ==
    IF x = 0 THEN WordBits
    ELSE IF x % 2 = 1 THEN 0
    ELSE 1 + trailing_zeros(x \div 2)

RECURSIVE NextPow2From(_, _)
NextPow2From(p, x) == IF p >= x THEN p ELSE NextPow2From(2 * p, x)

\* A rounding that leaves the value as it is.
checked_next_power_of_two_Same(x) == x

\* u64::checked_next_power_of_two: NoneIdx when the result does not fit.
checked_next_power_of_two(x) ==
    IF x > Pow2(WordBits - 1) THEN NoneIdx ELSE NextPow2From(1, x)

is_power_of_two(x) == x > 0 /\ NextPow2From(1, x) = x

\* align_up without the rounding: the value is returned as it is.
align_up_NoRound(value, align_mask) == value

align_up(value, align_mask) ==
    IF value + align_mask > WordMax THEN NoneIdx
    ELSE BitAnd(value + align_mask, BitNot(align_mask))

align_down(value, align_mask) == BitAnd(value, BitNot(align_mask))

\* let v = ..; the value is computed once and handed to what follows.
With(v, Op(_)) == Op(v)

Min(a, b) == IF a <= b THEN a ELSE b
Max(a, b) == IF a >= b THEN a ELSE b

\* ------------------------------------------------------------ variables
VARIABLES
    build,              \* "debug" or "release": the profile the crate is built with
    workload,           \* the family of calls the caller makes in this run
    memory_heaps,       \* GpuAllocator::memory_heaps
    allocations_remains,\* GpuAllocator::allocations_remains
    linear_allocators,  \* GpuAllocator::linear_allocators
    buddy_allocators,   \* GpuAllocator::buddy_allocators
    device,             \* the memory objects the device has handed out, by handle
    blocks,             \* the MemoryBlocks the caller holds (a bag)
    last                \* the last call: its request, its result, its device calls

\* ------------------------------------------- device properties and config
props ==
    [ memory_types |->
        [i \in 0..2 |->
            IF i = 0 THEN [props |-> {"DEVICE_LOCAL"}, heap |-> 0]
            ELSE IF i = 1 THEN [props |-> {"HOST_VISIBLE"}, heap |-> 1]
            ELSE [props |-> {"HOST_VISIBLE", "HOST_COHERENT"}, heap |-> 1]],
      memory_heaps |-> [i \in 0..1 |-> IF i = 0 THEN [size |-> 1024] ELSE [size |-> 2048]],
      max_memory_allocation_count |-> 2,
      max_memory_allocation_size |-> 8,
      non_coherent_atom_size |-> 2,
      buffer_device_address |-> FALSE ]

\* The Config the allocator is built with: the caller of the "small_chunk"
\* workload asks for linear chunks smaller than max_memory_allocation_size.
config ==
    [ dedicated_treshold |-> 4,
      preferred_dedicated_treshold |-> 2,
      transient_dedicated_treshold |-> 6,
      linear_chunk |-> IF workload = "small_chunk" THEN 4 ELSE 8,
      minimal_buddy_size |-> 1,
      initial_buddy_dedicated_size |-> 4 ]

TypeIdx == DOMAIN props.memory_types
HeapIdx == DOMAIN props.memory_heaps

\* The thresholds with preferred_dedicated_treshold not clamped by
\* dedicated_treshold.
Thresholds_NoMin(cfg, p) ==
    [ dedicated_treshold |->
          Max(cfg.dedicated_treshold, p.max_memory_allocation_size),
      preferred_dedicated_treshold |->
          Max(cfg.preferred_dedicated_treshold, p.max_memory_allocation_size),
      transient_dedicated_treshold |->
          Max(Max(cfg.transient_dedicated_treshold, cfg.dedicated_treshold),
              p.max_memory_allocation_size) ]

\* GpuAllocator::new, the three thresholds it stores for a Config and the
\* DeviceProperties.
Thresholds(cfg, p) ==
    [ dedicated_treshold |->
          Max(cfg.dedicated_treshold, p.max_memory_allocation_size),
      preferred_dedicated_treshold |->
          Max(Min(cfg.preferred_dedicated_treshold, cfg.dedicated_treshold),
              p.max_memory_allocation_size),
      transient_dedicated_treshold |->
          Max(Max(cfg.transient_dedicated_treshold, cfg.dedicated_treshold),
              p.max_memory_allocation_size) ]

\* GpuAllocator::new, the fields that never change afterwards.
dedicated_treshold == Thresholds(config, props).dedicated_treshold
preferred_dedicated_treshold == Thresholds(config, props).preferred_dedicated_treshold
transient_dedicated_treshold == Thresholds(config, props).transient_dedicated_treshold
max_memory_allocation_size == props.max_memory_allocation_size
non_coherent_atom_mask == props.non_coherent_atom_size - 1
memory_types == props.memory_types

host_visible_non_coherent(p) ==
    (p \cap {"HOST_COHERENT", "HOST_VISIBLE"}) = {"HOST_VISIBLE"}

with_implicit_usage_flags(usage) ==
    IF usage = {} THEN {"FAST_DEVICE_ACCESS"}
    ELSE IF usage \cap {"DOWNLOAD", "UPLOAD"} # {} THEN usage \cup {"HOST_ACCESS"}
    ELSE usage

\* ------------------------------------------------------- MemoryForUsage
HostUsages == {"HOST_ACCESS", "UPLOAD", "DOWNLOAD"}

UsageCompatible(usage, p) ==
    (usage \cap HostUsages # {}) => ("HOST_VISIBLE" \in p)

B2N(b) == IF b THEN 1 ELSE 0

\* Lower is more preferred.
UsagePenalty(usage, p) ==
      (IF "FAST_DEVICE_ACCESS" \in usage
         THEN 2 * B2N("DEVICE_LOCAL" \notin p) + B2N("HOST_VISIBLE" \in p) ELSE 0)
    + (IF "HOST_ACCESS" \in usage THEN B2N("HOST_COHERENT" \notin p) ELSE 0)
    + (IF "UPLOAD" \in usage
         THEN 2 * B2N("DEVICE_LOCAL" \notin p) + B2N("HOST_COHERENT" \notin p) ELSE 0)
    + (IF "DOWNLOAD" \in usage THEN 4 * B2N("HOST_CACHED" \notin p) ELSE 0)
    + (IF "TRANSIENT" \in usage THEN B2N("LAZILY_ALLOCATED" \notin p) ELSE 0)

UsageTypeSet(usage) ==
    {t \in TypeIdx : UsageCompatible(usage, memory_types[t].props)}

UsageRank(usage, t) ==
    UsagePenalty(usage, memory_types[t].props) * (Cardinality(TypeIdx) + 1) + t

\* MemoryForUsage::types: the compatible types, most preferred first.
memory_for_usage_types(usage) ==
    LET C == UsageTypeSet(usage)
    IN  [i \in 1..Cardinality(C) |->
            CHOOSE t \in C :
                Cardinality({u \in C : UsageRank(usage, u) < UsageRank(usage, t)}) = i - 1]

RECURSIVE BitsOf(_)
BitsOf(S) ==
    IF S = {} THEN 0
    ELSE LET t == CHOOSE x \in S : TRUE IN Pow2(t) + BitsOf(S \ {t})

\* MemoryForUsage::mask: the bitset of the compatible types.
memory_for_usage_mask(usage) == BitsOf(UsageTypeSet(usage))


vars == <<build, workload, memory_heaps, allocations_remains, linear_allocators,
          buddy_allocators, device, blocks, last>>

\* debug_assert!, overflow checks and the check in unreachable_unchecked are
\* compiled in under the debug profile only.
Debug == build = "debug"

\* The allocator together with the device, as one value the operations
\* transform.  calls counts the allocate_memory calls of the running
\* operation and answers lists what the device answered to them, tried
\* counts the turns of the loop over the candidate memory types, panic is
\* set when the operation panics (or traps).
Panic(a) == [a EXCEPT !.panic = TRUE]

Result(a, res, block) == [a |-> a, res |-> res, block |-> block]
Err(a, res) == Result(a, res, <<>>)
PanicResult(a) == Result(Panic(a), "panic", <<>>)

HeapOf(t) == memory_types[t].heap

\* ------------------------------------------------------------------ Heap
HeapNew(size) == [size |-> size, used |-> 0]

HeapBudget(heap) == (heap.size + (WordMax + 1) - heap.used) % (WordMax + 1)

\* Heap::alloc that forgets to charge the heap.
HeapAllocMut_NoCharge(heap, size) == heap

HeapAllocMut(heap, size) == [heap EXCEPT !.used = (@ + size) % (WordMax + 1)]

HeapDeallocMut(heap, size) ==
    [heap EXCEPT !.used = (@ + (WordMax + 1) - size) % (WordMax + 1)]

\* heap.alloc(size) on the heap of memory type t.
HeapAlloc(a, t, size) ==
    IF Debug /\ a.heaps[HeapOf(t)].used + size > WordMax THEN Panic(a)
    ELSE [a EXCEPT !.heaps[HeapOf(t)] = HeapAllocMut(@, size)]

\* heap.dealloc(size) on the heap of memory type t.
HeapDealloc(a, t, size) ==
    IF Debug /\ size > a.heaps[HeapOf(t)].used THEN Panic(a)
    ELSE [a EXCEPT !.heaps[HeapOf(t)] = HeapDeallocMut(@, size)]

\* *allocations_remains -= 1
DecRemains(a) ==
    IF a.remains = 0
    THEN IF Debug THEN Panic(a) ELSE [a EXCEPT !.remains = WordMax]
    ELSE [a EXCEPT !.remains = @ - 1]

\* *allocations_remains += 1
IncRemains(a) ==
    IF a.remains = WordMax
    THEN IF Debug THEN Panic(a) ELSE [a EXCEPT !.remains = 0]
    ELSE [a EXCEPT !.remains = @ + 1]

\* ---------------------------------------------------------- MemoryDevice
\* What the device answers to the calls of one operation: alloc[i] to the
\* i-th allocate_memory call ("Ok" beyond the list), map to map_memory;
\* side is the value a read of a stale PairState yields.
AllocOutcome(a, o) ==
    IF a.calls + 1 <= Len(o.alloc) THEN o.alloc[a.calls + 1] ELSE "Ok"

RECURSIVE HeapInUse(_, _, _)
HeapInUse(dev, h, n) ==
    IF n = 0 THEN 0
    ELSE HeapInUse(dev, h, n - 1)
         + (IF dev[n].allocated /\ HeapOf(dev[n].memory_type) = h THEN dev[n].size ELSE 0)

\* MemoryDevice::allocate_memory.  The device refuses what its heap cannot
\* hold; it may refuse for reasons of its own (the outcome o prescribes).
allocate_memory(a, size, memory_type, o) ==
    LET heap == HeapOf(memory_type)
        room == props.memory_heaps[heap].size - HeapInUse(a.dev, heap, Len(a.dev))
        r    == IF AllocOutcome(a, o) # "Ok" THEN AllocOutcome(a, o)
                ELSE IF room < size \/ Len(a.dev) >= MaxObjects THEN "OutOfDeviceMemory"
                ELSE "Ok"
        a1   == [a EXCEPT !.calls = @ + 1, !.answers = Append(@, r)]
    IN  IF r = "Ok"
        THEN [a |-> [a1 EXCEPT !.dev = Append(@, [size |-> size, memory_type |-> memory_type,
                                                 allocated |-> TRUE, mapped |-> FALSE,
                                                 frees |-> 0])],
              r |-> "Ok", memory |-> Len(a.dev) + 1]
        ELSE [a |-> a1, r |-> r, memory |-> 0]

\* MemoryDevice::deallocate_memory; frees counts the calls on one handle.
deallocate_memory(a, memory) ==
    [a EXCEPT !.dev[memory] = [@ EXCEPT !.allocated = FALSE, !.mapped = FALSE,
                                        !.frees = Min(@ + 1, 2)]]

\* MemoryDevice::map_memory.
map_memory(a, memory, o) ==
    IF o.map = "Ok"
    THEN [a |-> [a EXCEPT !.dev[memory].mapped = TRUE, !.maps = @ + 1], r |-> "Ok"]
    ELSE [a |-> [a EXCEPT !.maps = @ + 1], r |-> o.map]

\* ------------------------------------------------------------------ Slab
\* Stable-index arena: a removed slot is reused by the next insert.  A
\* vacant slot keeps the bytes of the value it held.
SlabNew == [entries |-> <<>>, next_vacant |-> WordMax]

SlabLen(slab) == Len(slab.entries)

SlabInsertIndex(slab) ==
    IF slab.next_vacant >= Len(slab.entries) THEN Len(slab.entries) ELSE slab.next_vacant

SlabInsert(slab, value) ==
    IF slab.next_vacant >= Len(slab.entries)
    THEN [slab EXCEPT !.entries = Append(@, [occupied |-> TRUE, value |-> value,
                                             next_vacant |-> WordMax])]
    ELSE [entries |-> [slab.entries EXCEPT ![slab.next_vacant + 1] =
                          [occupied |-> TRUE, value |-> value, next_vacant |-> WordMax]],
          next_vacant |-> slab.entries[slab.next_vacant + 1].next_vacant]

SlabOccupied(slab, index) ==
    index >= 0 /\ index < Len(slab.entries) /\ slab.entries[index + 1].occupied

SlabGet(slab, index) == slab.entries[index + 1].value

SlabSet(slab, index, value) == [slab EXCEPT !.entries[index + 1].value = value]

SlabRemove(slab, index) ==
    [entries |-> [slab.entries EXCEPT ![index + 1] =
                     [@ EXCEPT !.occupied = FALSE, !.next_vacant = slab.next_vacant]],
     next_vacant |-> index]

\* ------------------------------------------------------- LinearAllocator
ChunksNew == [ready |-> <<>>, exhausted |-> <<>>, offset |-> 0]

LinearAllocatorNew(chunk_size, memory_type, p, atom_mask) ==
    [ chunks |-> ChunksNew,
      chunks_unmapped |-> ChunksNew,
      chunk_size |-> Min(chunk_size, WordMax \div 2),
      memory_type |-> memory_type,
      props |-> p,
      atom_mask |-> atom_mask ]

\* Chunk::exhaust
exhaust(chunk) == [memory |-> chunk.memory, allocated |-> chunk.allocated]

fits(chunk_size, chunk_allocated, size, align_mask) ==
    LET aligned == align_up(chunk_allocated, align_mask)
    IN  /\ aligned # NoneIdx
        /\ aligned + size <= WordMax
        /\ aligned + size < chunk_size

\* alloc_from_chunk with the block's chunk id taken from the stream offset
\* alone, without the length of the exhausted FIFO.
alloc_from_chunk_OffsetOnly(chunk, chunk_size, chunks_offset, exhausted, size, align_mask) ==
    LET offset == align_up(chunk.offset, align_mask)
    IN  IF (Debug /\ ~fits(chunk_size, chunk.allocated, size, align_mask))
           \/ offset = NoneIdx
        THEN [panic |-> TRUE, chunk |-> chunk, block |-> <<>>]
        ELSE [panic |-> FALSE,
              chunk |-> [chunk EXCEPT !.offset = offset + size, !.allocated = @ + 1],
              block |-> << [ memory |-> chunk.memory,
                             ptr    |-> IF chunk.ptr = <<>> THEN <<>>
                                        ELSE <<chunk.ptr[1] + size>>,
                             offset |-> offset,
                             size   |-> size,
                             chunk  |-> chunks_offset ] >>]

\* LinearAllocator::alloc_from_chunk: the chunk afterwards and the block.
alloc_from_chunk(chunk, chunk_size, chunks_offset, exhausted, size, align_mask) ==
    LET offset == align_up(chunk.offset, align_mask)
    IN  IF (Debug /\ ~fits(chunk_size, chunk.allocated, size, align_mask))
           \/ offset = NoneIdx
        THEN [panic |-> TRUE, chunk |-> chunk, block |-> <<>>]
        ELSE [panic |-> FALSE,
              chunk |-> [chunk EXCEPT !.offset = offset + size, !.allocated = @ + 1],
              block |-> << [ memory |-> chunk.memory,
                             ptr    |-> IF chunk.ptr = <<>> THEN <<>>
                                        ELSE <<chunk.ptr[1] + size>>,
                             offset |-> offset,
                             size   |-> size,
                             chunk  |-> chunks_offset + exhausted ] >>]

\* exhausted.extend(Some(ready.take().map(Chunk::exhaust))): one entry is
\* pushed, None when there was no ready chunk.
RetireReady(chunks) ==
    [chunks EXCEPT
        !.exhausted = Append(@, IF chunks.ready = <<>> THEN <<>>
                                ELSE <<exhaust(chunks.ready[1])>>),
        !.ready = <<>>]

ReadyFits(la, stream, size, align_mask) ==
    /\ la[stream].ready # <<>>
    /\ fits(la.chunk_size, la[stream].ready[1].allocated, size, align_mask)

\* Serve the block from the ready chunk of the stream.
ServeFromReady(a, t, stream, size, align_mask) ==
    LET la == a.lin[t][1]
        cs == la[stream]
    IN  With(alloc_from_chunk(cs.ready[1], la.chunk_size, cs.offset,
                              Len(cs.exhausted), size, align_mask), LAMBDA r :
            IF r.panic THEN PanicResult(a)
            ELSE Result([a EXCEPT !.lin[t] = <<[la EXCEPT ![stream].ready = <<r.chunk>>]>>],
                        "Ok", r.block))

InstallReady(a, t, stream, memory, ptr) ==
    [a EXCEPT !.lin[t][1][stream].ready =
        << [memory |-> memory, offset |-> 0, allocated |-> 0, ptr |-> ptr] >>]

\* The host-visible arm once the mapped stream has no fitting ready chunk.
LinearAllocNewMapped(a1, t, size, align_mask, host_access, o) ==
    LET la1 == a1.lin[t][1]
    IN  With([a1 EXCEPT !.lin[t][1].chunks = RetireReady(@)], LAMBDA a2 :
        IF a2.remains = 0 THEN Err(a2, "TooManyObjects")
        ELSE
        With(allocate_memory(a2, la1.chunk_size, la1.memory_type, o), LAMBDA d :
        IF d.r # "Ok" THEN Err(d.a, d.r)
        ELSE
        With(HeapAlloc(DecRemains(d.a), t, la1.chunk_size), LAMBDA a3 :
        IF a3.panic THEN PanicResult(a3)
        ELSE
        With(map_memory(a3, d.memory, o), LAMBDA m :
        IF m.r = "Ok"
        THEN ServeFromReady(InstallReady(m.a, t, "chunks", d.memory, <<0>>),
                            t, "chunks", size, align_mask)
        ELSE IF m.r = "MapFailed"
        THEN IF ~host_access
             THEN IF Debug /\ m.a.lin[t][1].chunks_unmapped.ready # <<>>
                  THEN PanicResult(m.a)
                  ELSE ServeFromReady(
                           InstallReady(m.a, t, "chunks_unmapped", d.memory, <<>>),
                           t, "chunks_unmapped", size, align_mask)
             ELSE With(HeapDealloc(IncRemains(deallocate_memory(m.a, d.memory)),
                                   t, la1.chunk_size), LAMBDA a4 :
                      IF a4.panic THEN PanicResult(a4)
                      ELSE Err(a4, "OutOfHostMemory"))
        ELSE Err(m.a, m.r)))))

\* The arm for memory that is not host-visible.
LinearAllocUnmapped(a0, t, size, align_mask, o) ==
    LET la0 == a0.lin[t][1]
    IN  IF ReadyFits(la0, "chunks_unmapped", size, align_mask)
        THEN ServeFromReady(a0, t, "chunks_unmapped", size, align_mask)
        ELSE
        With(allocate_memory([a0 EXCEPT !.lin[t][1].chunks_unmapped = RetireReady(@)],
                             la0.chunk_size, la0.memory_type, o), LAMBDA d :
        IF d.r # "Ok" THEN Err(d.a, d.r)
        ELSE
        With(DecRemains(d.a), LAMBDA a2 :
        With(HeapAlloc(a2, t, la0.chunk_size), LAMBDA a3 :
            IF a2.panic THEN PanicResult(a2)
            ELSE IF a3.panic THEN PanicResult(a3)
            ELSE ServeFromReady(
                     InstallReady(a3, t, "chunks_unmapped", d.memory, <<>>),
                     t, "chunks_unmapped", size, align_mask))))

\* LinearAllocator::alloc on the allocator of memory type t.
LinearAlloc(a0, t, size, align_mask0, usage, o) ==
    LET la0 == a0.lin[t][1]
        align_mask == BitOr(align_mask0, la0.atom_mask)
        host_access == "HOST_ACCESS" \in usage
    IN  IF Debug /\ size > la0.chunk_size THEN PanicResult(a0)
        ELSE IF "HOST_VISIBLE" \in la0.props
        THEN IF ~host_access /\ ReadyFits(la0, "chunks_unmapped", size, align_mask)
             THEN ServeFromReady(a0, t, "chunks_unmapped", size, align_mask)
             ELSE
             With(IF ~host_access
                  THEN [a0 EXCEPT !.lin[t][1].chunks_unmapped = RetireReady(@)]
                  ELSE a0, LAMBDA a1 :
                 IF ReadyFits(a1.lin[t][1], "chunks", size, align_mask)
                 THEN ServeFromReady(a1, t, "chunks", size, align_mask)
                 ELSE LinearAllocNewMapped(a1, t, size, align_mask, host_access, o))
        ELSE IF Debug /\ host_access THEN PanicResult(a0)
        ELSE LinearAllocUnmapped(a0, t, size, align_mask, o)

RECURSIVE PopFreed(_)
\* while let Some(None) = exhausted.get(0) { pop_front(); offset += 1 }
PopFreed(chunks) ==
    IF Len(chunks.exhausted) > 0 /\ chunks.exhausted[1] = <<>>
    THEN PopFreed([chunks EXCEPT !.exhausted = Tail(@), !.offset = @ + 1])
    ELSE chunks

\* The ready chunk returned to the device as soon as its last block is
\* deallocated.
ReadyDealloc_Frees(a, t, stream) ==
    LET chunks == a.lin[t][1][stream]
    IN  IF chunks.ready = <<>> THEN Panic(a)
        ELSE IF chunks.ready[1].allocated = 0 THEN Panic(a)
        ELSE IF chunks.ready[1].allocated > 1
        THEN [a EXCEPT !.lin[t][1][stream].ready[1].allocated = @ - 1]
        ELSE With(IncRemains(deallocate_memory(
                      [a EXCEPT !.lin[t][1][stream].ready = <<>>],
                      chunks.ready[1].memory)), LAMBDA a2 :
                 IF a2.panic THEN a2 ELSE HeapDealloc(a2, t, a.lin[t][1].chunk_size))

\* The arm of dealloc_from_chunks for a block of the ready chunk:
\* chunk.allocated -= 1, and nothing else.
ReadyDealloc(a, t, stream) ==
    LET chunks == a.lin[t][1][stream]
    IN  IF chunks.ready = <<>> THEN Panic(a)
        ELSE IF chunks.ready[1].allocated = 0
        THEN IF Debug THEN Panic(a)
             ELSE [a EXCEPT !.lin[t][1][stream].ready[1].allocated = WordMax]
        ELSE [a EXCEPT !.lin[t][1][stream].ready[1].allocated = @ - 1]

\* LinearAllocator::dealloc_from_chunks on one stream of the allocator of t.
dealloc_from_chunks(a, t, stream, chunk, chunk_size) ==
    LET chunks == a.lin[t][1][stream]
        chunk_offset == chunk - chunks.offset
        len == Len(chunks.exhausted)
    IN  IF Debug /\ ~(chunk > chunks.offset) THEN Panic(a)
        ELSE IF chunk_offset < 0 \/ chunk_offset > len THEN Panic(a)
        ELSE IF chunk_offset = len THEN ReadyDealloc(a, t, stream)
        ELSE IF chunks.exhausted[chunk_offset + 1] = <<>> THEN Panic(a)
        ELSE
        LET ex == chunks.exhausted[chunk_offset + 1][1]
        IN  IF ex.allocated = 0
            THEN IF Debug THEN Panic(a)
                 ELSE [a EXCEPT !.lin[t][1][stream].exhausted[chunk_offset + 1][1].allocated
                                    = WordMax]
            ELSE IF ex.allocated > 1
            THEN [a EXCEPT !.lin[t][1][stream].exhausted[chunk_offset + 1][1].allocated
                               = @ - 1]
            ELSE
            With(IncRemains(deallocate_memory(
                     [a EXCEPT !.lin[t][1][stream].exhausted[chunk_offset + 1] = <<>>],
                     ex.memory)), LAMBDA a2 :
            With(HeapDealloc(a2, t, chunk_size), LAMBDA a3 :
                IF a2.panic THEN a2
                ELSE IF a3.panic THEN a3
                ELSE IF chunk_offset = 0
                THEN [a3 EXCEPT !.lin[t][1][stream] = PopFreed(@)]
                ELSE a3))

\* LinearAllocator::dealloc
LinearDealloc(a, t, block) ==
    IF block.ptr # <<>>
    THEN dealloc_from_chunks(a, t, "chunks", block.chunk, a.lin[t][1].chunk_size)
    ELSE dealloc_from_chunks(a, t, "chunks_unmapped", block.chunk, a.lin[t][1].chunk_size)

\* -------------------------------------------------------- BuddyAllocator
\* A PairEntry.  A PairState::Exhausted keeps the bytes of the payload the
\* entry held as Ready: state is the tag, ready/next/prev the payload.
PairEntry(state, ready, next, prev, chunk, offset, parent) ==
    [state |-> state, ready |-> ready, next |-> next, prev |-> prev,
     chunk |-> chunk, offset |-> offset, parent |-> parent]

SideBit(side) == IF side = "Left" THEN 0 ELSE 1

SizeNew == [ready |-> 0, pairs |-> SlabNew]

\* PairState::replace_next on pairs[index]: the Size afterwards, the value
\* replaced, and whether unreachable_unchecked was reached.
replace_next(sz, index, value) ==
    LET e == SlabGet(sz.pairs, index)
    IN  [sz  |-> [sz EXCEPT !.pairs = SlabSet(@, index, [e EXCEPT !.next = value])],
         old |-> e.next,
         ub  |-> e.state = "Exhausted"]

replace_prev(sz, index, value) ==
    LET e == SlabGet(sz.pairs, index)
    IN  [sz  |-> [sz EXCEPT !.pairs = SlabSet(@, index, [e EXCEPT !.prev = value])],
         old |-> e.prev,
         ub  |-> e.state = "Exhausted"]

\* Size::add_pair_and_acquire_left
add_pair_and_acquire_left(sz, chunk, offset, parent) ==
    LET index == SlabInsertIndex(sz.pairs)
        pairs == SlabInsert(sz.pairs,
                     PairEntry("Ready", "Right", index, index, chunk, offset, parent))
    IN  [sz    |-> [ready |-> index, pairs |-> pairs],
         entry |-> [chunk |-> chunk, offset |-> offset, index |-> index]]

\* Size::acquire.  entry is <<>> for None.  ub tells that the code reached
\* unreachable_unchecked (or read a vacant slot): a trap under the debug
\* profile, and under release the code goes on as if the entry were Ready,
\* reading the stale payload; the side it then reads is any of the two.
acquire(sz, size, side) ==
    IF sz.ready >= SlabLen(sz.pairs)
    THEN [sz |-> sz, entry |-> <<>>, ub |-> FALSE, panic |-> FALSE]
    ELSE
    LET e     == SlabGet(sz.pairs, sz.ready)
        ub0   == e.state = "Exhausted" \/ ~SlabOccupied(sz.pairs, sz.ready)
        bit   == SideBit(IF ub0 THEN side ELSE e.ready)
        sz1   == [sz EXCEPT !.pairs = SlabSet(@, sz.ready, [e EXCEPT !.state = "Exhausted"])]
    IN  With(replace_next(sz1, e.prev, e.next), LAMBDA rn :
        With(replace_prev(rn.sz, e.next, e.prev), LAMBDA rp :
        With(ub0 \/ rn.ub \/ rp.ub, LAMBDA ub :
            IF Debug /\ (ub \/ rn.old # sz.ready \/ rp.old # sz.ready)
            THEN [sz |-> sz, entry |-> <<>>, ub |-> ub, panic |-> TRUE]
            ELSE [sz    |-> rp.sz,
                  entry |-> << [chunk  |-> e.chunk,
                                offset |-> e.offset + bit * size,
                                index  |-> 2 * sz.ready + bit] >>,
                  ub    |-> ub,
                  panic |-> FALSE])))

\* A release that takes the side recorded as free for a release like any
\* other and reports nothing to do.
DoubleFree_Ignored(sz) ==
    [sz |-> sz, r |-> "None", arg |-> 0, ub |-> FALSE, panic |-> FALSE]

\* The arm of Size::release for a side that the pair records as free:
\* panic!("Attempt to dealloate already free block").
DoubleFree(sz) ==
    [sz |-> sz, r |-> "None", arg |-> 0, ub |-> FALSE, panic |-> TRUE]

\* Size::release.  r is "None", "Parent" or "Chunk", arg the pair or chunk.
release(sz, index0) ==
    LET side  == IF index0 % 2 = 0 THEN "Left" ELSE "Right"
        index == index0 \div 2
        len   == SlabLen(sz.pairs)
        bad   == [sz |-> sz, r |-> "None", arg |-> 0, ub |-> FALSE, panic |-> TRUE]
        e     == SlabGet(sz.pairs, index)
    IN  IF ~SlabOccupied(sz.pairs, index) THEN bad
        ELSE IF e.state = "Exhausted"
        THEN IF sz.ready = len
             THEN [sz |-> [ready |-> index,
                           pairs |-> SlabSet(sz.pairs, index,
                               [e EXCEPT !.state = "Ready", !.ready = side,
                                         !.next = index, !.prev = index])],
                   r |-> "None", arg |-> 0, ub |-> FALSE, panic |-> FALSE]
             ELSE IF sz.ready > len THEN bad
             ELSE
             With(replace_prev(sz, sz.ready, index), LAMBDA rp :
             With(replace_next(rp.sz, rp.old, index), LAMBDA rn :
                 IF Debug /\ (rp.ub \/ rn.ub \/ rn.old # sz.ready)
                 THEN [bad EXCEPT !.ub = rp.ub \/ rn.ub]
                 ELSE [sz |-> [rn.sz EXCEPT !.pairs = SlabSet(@, index,
                                  [SlabGet(rn.sz.pairs, index) EXCEPT
                                      !.state = "Ready", !.ready = side,
                                      !.next = sz.ready, !.prev = rp.old])],
                       r |-> "None", arg |-> 0, ub |-> rp.ub \/ rn.ub, panic |-> FALSE]))
        ELSE IF e.ready = side THEN DoubleFree(sz)
        ELSE
        With(replace_next(sz, e.prev, e.next), LAMBDA rn :
        With(replace_prev(rn.sz, e.next, e.prev), LAMBDA rp :
            IF Debug /\ (rn.ub \/ rp.ub \/ rn.old # index \/ rp.old # index)
            THEN [bad EXCEPT !.ub = rn.ub \/ rp.ub]
            ELSE IF e.parent # NoneIdx
            THEN [sz |-> rp.sz, r |-> "Parent", arg |-> e.parent,
                  ub |-> rn.ub \/ rp.ub, panic |-> FALSE]
            ELSE IF Debug /\ e.offset # 0 THEN [bad EXCEPT !.ub = rn.ub \/ rp.ub]
            ELSE [sz |-> rp.sz, r |-> "Chunk", arg |-> e.chunk,
                  ub |-> rn.ub \/ rp.ub, panic |-> FALSE]))

Saturating(n) == IF n < 0 THEN 0 ELSE n

RECURSIVE Repeat(_, _)
\* (0..n).map(|_| x).collect()
Repeat(x, n) == IF n = 0 THEN <<>> ELSE Append(Repeat(x, n - 1), x)

\* BuddyAllocator::new; <<>> when one of its assertions fails.
BuddyAllocatorNew(minimal_size, initial_dedicated_size, memory_type, p, atom_mask) ==
    IF ~is_power_of_two(minimal_size) \/ ~is_power_of_two(initial_dedicated_size)
    THEN <<>>
    ELSE << [ minimal_size |-> minimal_size,
              chunks |-> SlabNew,
              sizes |-> Repeat(SizeNew,
                               Saturating(trailing_zeros(initial_dedicated_size)
                                          - trailing_zeros(minimal_size))),
              memory_type |-> memory_type,
              props |-> p,
              atom_mask |-> BitOr(atom_mask, minimal_size - 1) ] >>

\* The body of the chunk arm of the loop in BuddyAllocator::alloc: a new
\* device chunk for the topmost size class c.
BuddyNewChunk(a, t, c, o) ==
    LET ba == a.bud[t][1]
        chunk_size == ba.minimal_size * Pow2(c + 1)
        host_visible == "HOST_VISIBLE" \in ba.props
    IN  IF a.remains = 0 THEN [a |-> a, res |-> "TooManyObjects", entry |-> <<>>]
        ELSE
        With(allocate_memory(a, chunk_size, ba.memory_type, o), LAMBDA d :
        IF d.r # "Ok" THEN [a |-> d.a, res |-> d.r, entry |-> <<>>]
        ELSE
        With(HeapAlloc(DecRemains(d.a), t, chunk_size), LAMBDA a1 :
        With(IF host_visible THEN map_memory(a1, d.memory, o) ELSE [a |-> a1, r |-> "Ok"],
             LAMBDA m :
        IF a1.panic THEN [a |-> a1, res |-> "panic", entry |-> <<>>]
        ELSE IF m.r = "OutOfDeviceMemory"
        THEN [a |-> m.a, res |-> "OutOfDeviceMemory", entry |-> <<>>]
        ELSE IF m.r # "Ok"
        THEN [a |-> m.a, res |-> "OutOfHostMemory", entry |-> <<>>]
        ELSE
        With(add_pair_and_acquire_left(ba.sizes[c + 1], SlabInsertIndex(ba.chunks),
                                       0, NoneIdx), LAMBDA ap :
            [a |-> [m.a EXCEPT
                      !.bud[t][1].chunks = SlabInsert(@,
                          [memory |-> d.memory,
                           ptr |-> IF host_visible THEN <<0>> ELSE <<>>,
                           size |-> chunk_size]),
                      !.bud[t][1].sizes[c + 1] = ap.sz],
             res |-> "Ok", entry |-> <<ap.entry>>]))))

RECURSIVE BuddyFind(_, _, _, _)
\* The loop of BuddyAllocator::alloc from candidate_size_index c upwards.
BuddyFind(a, t, c, o) ==
    LET ba == a.bud[t][1]
        sizes_len == Len(ba.sizes)
    IN  IF c >= sizes_len THEN [a |-> Panic(a), res |-> "panic", entry |-> <<>>, c |-> c]
        ELSE
        With(acquire(ba.sizes[c + 1], ba.minimal_size * Pow2(c), o.side), LAMBDA q :
        With([a EXCEPT !.bud[t][1].sizes[c + 1] = q.sz, !.ub = @ \/ q.ub], LAMBDA a1 :
            IF q.panic THEN [a |-> Panic(a1), res |-> "panic", entry |-> <<>>, c |-> c]
            ELSE IF q.entry # <<>> THEN [a |-> a1, res |-> "Ok", entry |-> q.entry, c |-> c]
            ELSE IF sizes_len = c + 1
            THEN With(BuddyNewChunk(a1, t, c, o), LAMBDA n :
                     [a |-> n.a, res |-> n.res, entry |-> n.entry, c |-> c])
            ELSE BuddyFind(a1, t, c + 1, o)))

RECURSIVE BuddySplit(_, _, _, _)
\* for size_index in (size_index..entry_size_index).rev(): split class by
\* class down from si - 1 to size_index, taking the left half each time.
BuddySplit(sizes, entry, si, size_index) ==
    IF si <= size_index THEN [sizes |-> sizes, entry |-> entry]
    ELSE With(add_pair_and_acquire_left(sizes[si], entry.chunk, entry.offset, entry.index),
              LAMBDA ap :
                  BuddySplit([sizes EXCEPT ![si] = ap.sz], ap.entry, si - 1, size_index))

\* BuddyAllocator::alloc on the allocator of memory type t.
BuddyAlloc(a0, t, size0, align_mask0, o) ==
    LET ba0 == a0.bud[t][1]
        aligned == align_up(size0, BitOr(align_mask0, ba0.atom_mask))
    IN  With(IF aligned = NoneIdx THEN NoneIdx ELSE checked_next_power_of_two(aligned),
             LAMBDA size :
        IF size = NoneIdx THEN Err(a0, "OutOfDeviceMemory")
        ELSE
        With(trailing_zeros(size) - trailing_zeros(ba0.minimal_size), LAMBDA size_index :
        IF size_index < 0 THEN Err(a0, "OutOfDeviceMemory")
        ELSE
        With(BuddyFind(IF Len(ba0.sizes) <= size_index
                       THEN [a0 EXCEPT !.bud[t][1].sizes = Append(@, SizeNew)]
                       ELSE a0,
                       t, size_index, o), LAMBDA f :
        IF f.res = "panic" THEN PanicResult(f.a)
        ELSE IF f.res # "Ok" THEN Err(f.a, f.res)
        ELSE
        With(BuddySplit(f.a.bud[t][1].sizes, f.entry[1], f.c, size_index), LAMBDA sp :
        With([f.a EXCEPT !.bud[t][1].sizes = sp.sizes], LAMBDA a2 :
            LET entry == sp.entry
                chunks == a2.bud[t][1].chunks
                vacant == ~SlabOccupied(chunks, entry.chunk)
                chunk_entry == SlabGet(chunks, entry.chunk)
            IN  IF Debug /\ vacant THEN PanicResult(a2)
                ELSE Result([a2 EXCEPT !.ub = @ \/ vacant], "Ok",
                            << [ memory |-> chunk_entry.memory,
                                 ptr    |-> IF chunk_entry.ptr = <<>> THEN <<>>
                                            ELSE <<chunk_entry.ptr[1] + entry.offset>>,
                                 size   |-> size,
                                 offset |-> entry.offset,
                                 chunk  |-> entry.chunk,
                                 index  |-> entry.index ] >>))))))

RECURSIVE BuddyRelease(_, _, _, _, _)
\* The loop of BuddyAllocator::dealloc.
BuddyRelease(a, t, block, release_size_index, release_index) ==
    LET ba == a.bud[t][1]
    IN  IF release_size_index >= Len(ba.sizes) THEN Panic(a)
        ELSE
        With(release(ba.sizes[release_size_index + 1], release_index), LAMBDA r :
        With([a EXCEPT !.bud[t][1].sizes[release_size_index + 1] = r.sz,
                       !.ub = @ \/ r.ub], LAMBDA a1 :
            IF r.panic THEN Panic(a1)
            ELSE IF r.r = "None" THEN a1
            ELSE IF r.r = "Parent"
            THEN BuddyRelease(a1, t, block, release_size_index + 1, r.arg)
            ELSE IF ~SlabOccupied(ba.chunks, r.arg) THEN Panic(a1)
            ELSE
            LET chunk == SlabGet(ba.chunks, r.arg)
            IN  IF Debug /\ (r.arg # block.chunk
                             \/ chunk.size # ba.minimal_size * Pow2(release_size_index + 1))
                THEN Panic(a1)
                ELSE
                With(IncRemains(deallocate_memory(
                         [a1 EXCEPT !.bud[t][1].chunks = SlabRemove(@, r.arg)],
                         chunk.memory)), LAMBDA a3 :
                    IF a3.panic THEN a3 ELSE HeapDealloc(a3, t, chunk.size))))

\* BuddyAllocator::dealloc
BuddyDealloc(a, t, block) ==
    LET ba == a.bud[t][1]
        size_index == trailing_zeros(block.size) - trailing_zeros(ba.minimal_size)
    IN  IF Debug /\ ~is_power_of_two(block.size) THEN Panic(a)
        ELSE IF size_index < 0 THEN Panic(a)
        ELSE BuddyRelease(a, t, block, size_index, block.index)

\* ---------------------------------------------------------- GpuAllocator
MemoryBlock(memory_type, memory, offset, size, map_mask, flavor, chunk, ptr, index) ==
    [memory_type |-> memory_type, memory |-> memory, offset |-> offset, size |-> size,
     map_mask |-> map_mask, mapped |-> FALSE, flavor |-> flavor,
     chunk |-> chunk, ptr |-> ptr, index |-> index]

MapMask(t) ==
    IF host_visible_non_coherent(memory_types[t].props) THEN non_coherent_atom_mask ELSE 0

\* The match on the requested strategy in alloc_internal.
ChosenStrategy(a, size, usage, strategy) ==
    IF strategy \in {"Dedicated", "Linear", "Buddy"} THEN strategy
    ELSE IF strategy = "PreferDedicated" /\ size >= preferred_dedicated_treshold
            /\ a.remains > 0
    THEN "Dedicated"
    ELSE IF "TRANSIENT" \in usage
    THEN IF size > transient_dedicated_treshold /\ a.remains > 0
         THEN "Dedicated" ELSE "Linear"
    ELSE IF size > dedicated_treshold /\ a.remains > 0 THEN "Dedicated"
    ELSE "Buddy"

\* The Dedicated arm past its test of the heap budget: the device call and
\* the block built from its answer.
DedicatedArm(a, t, request, o) ==
    With(allocate_memory(a, request.size, t, o), LAMBDA d :
    IF d.r = "OutOfDeviceMemory" THEN Err(d.a, "continue")
    ELSE IF d.r = "OutOfHostMemory" THEN Err(d.a, "OutOfHostMemory")
    ELSE
    With(DecRemains(d.a), LAMBDA a1 :
    With(HeapAlloc(a1, t, request.size), LAMBDA a2 :
        IF a1.panic THEN PanicResult(a1)
        ELSE IF a2.panic THEN PanicResult(a2)
        ELSE Result(a2, "Ok",
                <<MemoryBlock(t, d.memory, 0, request.size, MapMask(t),
                              "Dedicated", 0, <<>>, 0)>>))))

\* One turn of the loop over memory types, Dedicated arm.  res "continue"
\* stands for the continue statement.
TryDedicated(a, t, request, o) ==
    IF BitNot(HeapBudget(a.heaps[HeapOf(t)])) >= request.size THEN Err(a, "continue")
    ELSE DedicatedArm(a, t, request, o)

\* self.linear_chunk.min(heap.size() / 32): the chunk size a new
\* LinearAllocator is given.
LinearChunkSize(cfg, heap_size) == Min(cfg.linear_chunk, heap_size \div 32)

\* Linear arm.
TryLinear(a, t, request, o) ==
    With(LinearAlloc(
             IF a.lin[t] # <<>> THEN a
             ELSE [a EXCEPT !.lin[t] =
                      <<LinearAllocatorNew(
                            LinearChunkSize(config, a.heaps[HeapOf(t)].size),
                            t, memory_types[t].props, MapMask(t))>>],
             t, request.size, request.align_mask, request.usage, o), LAMBDA r :
        IF r.res = "Ok"
        THEN Result(r.a, "Ok",
                 <<MemoryBlock(t, r.block[1].memory, r.block[1].offset, r.block[1].size,
                               MapMask(t), "Linear", r.block[1].chunk, r.block[1].ptr, 0)>>)
        ELSE IF r.res = "OutOfDeviceMemory" THEN Err(r.a, "continue")
        ELSE r)

\* The buddy allocator of memory type t the Buddy arm works on: the one
\* that exists, or the one get_or_insert_with creates.
BuddyAllocatorFor(a, t) ==
    IF a.bud[t] # <<>> THEN a.bud[t]
    ELSE BuddyAllocatorNew(
             Min(config.minimal_buddy_size, a.heaps[HeapOf(t)].size \div 1024),
             Min(config.initial_buddy_dedicated_size, a.heaps[HeapOf(t)].size \div 32),
             t, memory_types[t].props, MapMask(t))

\* Buddy arm.
TryBuddy(a, t, request, o) ==
    With([a EXCEPT !.bud[t] = BuddyAllocatorFor(a, t)], LAMBDA a1 :
    IF a1.bud[t] = <<>> THEN PanicResult(a)
    ELSE
    With(BuddyAlloc(a1, t, request.size, request.align_mask, o), LAMBDA r :
        IF r.res = "Ok"
        THEN Result(r.a, "Ok",
                 <<MemoryBlock(t, r.block[1].memory, r.block[1].offset, r.block[1].size,
                               MapMask(t), "Buddy", r.block[1].chunk, r.block[1].ptr,
                               r.block[1].index)>>)
        ELSE IF r.res = "OutOfDeviceMemory" THEN Err(r.a, "continue")
        ELSE r))

\* The loop over the candidate memory types enters one more turn.
Turn(a) == [a EXCEPT !.tried = @ + 1]

\* The loop giving up at the first candidate that is out of device memory.
TypesLoop_NoNext(a, types, i, request, chosen, o) ==
    IF i > Len(types) THEN Err(a, "OutOfDeviceMemory")
    ELSE
    With(IF chosen = "Dedicated" THEN TryDedicated(Turn(a), types[i], request, o)
         ELSE IF chosen = "Linear" THEN TryLinear(Turn(a), types[i], request, o)
         ELSE TryBuddy(Turn(a), types[i], request, o), LAMBDA r :
        IF r.res = "continue" THEN Err(r.a, "OutOfDeviceMemory") ELSE r)

RECURSIVE TypesLoop(_, _, _, _, _, _)
\* for &index in self.memory_for_usage.types(request.usage) { ... }
TypesLoop(a, types, i, request, chosen, o) ==
    IF i > Len(types) THEN Err(a, "OutOfDeviceMemory")
    ELSE
    With(IF chosen = "Dedicated" THEN TryDedicated(Turn(a), types[i], request, o)
         ELSE IF chosen = "Linear" THEN TryLinear(Turn(a), types[i], request, o)
         ELSE TryBuddy(Turn(a), types[i], request, o), LAMBDA r :
        IF r.res = "continue" THEN TypesLoop(r.a, types, i + 1, request, chosen, o)
        ELSE r)

\* GpuAllocator::alloc_internal; strategy is "None" for GpuAllocator::alloc.
alloc_internal(a, request0, strategy, o) ==
    With([request0 EXCEPT !.usage = with_implicit_usage_flags(@)], LAMBDA request :
    With(ChosenStrategy(a, request.size, request.usage, strategy), LAMBDA chosen :
        IF "DEVICE_ADDRESS" \in request.usage /\ ~props.buffer_device_address
        THEN PanicResult(a)
        ELSE IF request.size > max_memory_allocation_size
        THEN Err(a, "OutOfDeviceMemory")
        ELSE IF BitAnd(memory_for_usage_mask(request.usage), request.memory_types) = 0
        THEN Err(a, "NoCompatibleMemoryTypes")
        ELSE IF chosen = "Dedicated" /\ a.remains = 0
        THEN Err(a, "TooManyObjects")
        ELSE TypesLoop(a, memory_for_usage_types(request.usage), 1, request, chosen, o)))

\* GpuAllocator::dealloc
dealloc(a, block) ==
    IF block.flavor = "Dedicated"
    THEN With(IncRemains(deallocate_memory(a, block.memory)), LAMBDA a1 :
             IF a1.panic THEN a1 ELSE HeapDealloc(a1, block.memory_type, block.size))
    ELSE IF block.flavor = "Linear"
    THEN IF a.lin[block.memory_type] = <<>> THEN Panic(a)
         ELSE LinearDealloc(a, block.memory_type, block)
    ELSE IF a.bud[block.memory_type] = <<>> THEN Panic(a)
         ELSE BuddyDealloc(a, block.memory_type, block)

\* ------------------------------------------------------------ the caller
\* Request with every field given; dedicated is a variant of enum Dedicated.
RequestWith(size, align_mask, usage, types, dedicated) ==
    [size |-> size, align_mask |-> align_mask, usage |-> usage, memory_types |-> types,
     dedicated |-> dedicated]

\* Request with dedicated left at its default.
Request(size, align_mask, usage, types) ==
    RequestWith(size, align_mask, usage, types, "Indifferent")

Strategies == {"None", "Dedicated", "Linear", "Buddy", "PreferDedicated"}

\* The calls the caller makes, by workload: a request and the strategy
\* ("None" for GpuAllocator::alloc, else alloc_with_strategy).
Workloads == {"buddy", "buddy_host", "linear", "linear_host", "dedicated", "small_chunk"}

Calls(w) ==
    IF w = "buddy"
    THEN { <<Request(1, 0, {}, 3), "None">>, <<Request(3, 0, {}, 3), "None">>,
           <<Request(1, 0, {}, 2), "None">> }
    ELSE IF w = "buddy_host"
    THEN { <<Request(1, 0, {"HOST_ACCESS"}, 3), "None">>,
           <<Request(3, 3, {"HOST_ACCESS"}, 3), "None">>,
           <<Request(1, 0, {"HOST_ACCESS"}, 3), "Buddy">> }
    ELSE IF w = "linear"
    THEN { <<Request(3, 0, {"TRANSIENT"}, 3), "None">>,
           <<Request(3, 3, {"TRANSIENT"}, 3), "None">>,
           <<Request(8, 0, {"TRANSIENT"}, 3), "None">>,
           <<Request(3, 0, {"TRANSIENT"}, 2), "None">> }
    ELSE IF w = "linear_host"
    THEN { <<Request(3, 0, {"HOST_ACCESS"}, 3), "Linear">>,
           <<Request(3, 3, {"HOST_ACCESS"}, 3), "Linear">>,
           <<Request(8, 0, {"HOST_ACCESS"}, 3), "Linear">>,
           <<Request(3, 0, {"TRANSIENT", "HOST_ACCESS"}, 3), "None">> }
    ELSE IF w = "small_chunk"
    THEN { <<Request(8, 0, {"TRANSIENT"}, 3), "None">>,
           <<Request(3, 0, {}, 3), "Linear">> }
    ELSE { <<Request(sz, 0, {}, 3), st>> :
              sz \in {1, 8}, st \in {"Dedicated", "PreferDedicated"} }
         \cup { <<Request(1, 0, {"HOST_ACCESS"}, 1), "None">>,
                <<Request(1, 0, {}, 3), "None">>,
                <<RequestWith(1, 0, {}, 3, "Required"), "None">>,
                <<Request(1, 0, {}, 0), "None">>, <<Request(9, 0, {}, 0), "None">>,
                <<Request(9, 0, {}, 3), "None">> }

AllocOutcomes ==
    { <<>>, <<"OutOfHostMemory">>, <<"OutOfDeviceMemory">>,
      <<"OutOfDeviceMemory", "OutOfHostMemory">> }
MapOutcomes == {"Ok", "MapFailed", "OutOfDeviceMemory", "OutOfHostMemory"}
Sides == {"Left", "Right"}

Oracle(alloc, map, side) == [alloc |-> alloc, map |-> map, side |-> side]

\* The allocator and the device as the operations see them.
Current ==
    [heaps |-> memory_heaps, remains |-> allocations_remains,
     lin |-> linear_allocators, bud |-> buddy_allocators, dev |-> device,
     calls |-> 0, answers |-> <<>>, tried |-> 0, maps |-> 0, ub |-> FALSE,
     panic |-> FALSE]

NoRequest == Request(0, 0, {}, 0)

\* What the caller knows of the last call: post is the allocator after it,
\* pre the allocator before it.
Last(op, request, strategy, res, block, post, pre) ==
    [op |-> op, request |-> request, strategy |-> strategy, res |-> res,
     block |-> block, calls |-> post.calls, answers |-> post.answers,
     tried |-> post.tried, pre_remains |-> pre.remains,
     pre_used |-> [h \in HeapIdx |-> pre.heaps[h].used],
     pre_live |-> Len(SelectSeq(pre.dev, LAMBDA m : m.allocated))]

Init ==
    /\ build \in {"debug", "release"}
    /\ workload \in Workloads
    /\ memory_heaps = [h \in HeapIdx |-> HeapNew(props.memory_heaps[h].size)]
    /\ allocations_remains = props.max_memory_allocation_count
    /\ linear_allocators = [t \in TypeIdx |-> <<>>]
    /\ buddy_allocators = [t \in TypeIdx |-> <<>>]
    /\ device = <<>>
    /\ blocks = EmptyBag
    /\ last = [op |-> "new", request |-> NoRequest, strategy |-> "None", res |-> "Ok",
               block |-> <<>>, calls |-> 0, answers |-> <<>>, tried |-> 0,
               pre_remains |-> props.max_memory_allocation_count,
               pre_used |-> [h \in HeapIdx |-> 0], pre_live |-> 0]

FifoLen(t) ==
    IF linear_allocators[t] = <<>> THEN 0
    ELSE Max(Len(linear_allocators[t][1].chunks.exhausted),
             Len(linear_allocators[t][1].chunks_unmapped.exhausted))

RECURSIVE SumSeq(_, _)
SumSeq(f, n) == IF n = 0 THEN 0 ELSE f[n] + SumSeq(f, n - 1)

ReadyOffset(t, stream) ==
    IF linear_allocators[t] = <<>> \/ linear_allocators[t][1][stream].ready = <<>> THEN 0
    ELSE linear_allocators[t][1][stream].ready[1].offset

PairCount(t) ==
    IF buddy_allocators[t] = <<>> THEN 0
    ELSE LET sizes == buddy_allocators[t][1].sizes
         IN  SumSeq([i \in 1..Len(sizes) |-> SlabLen(sizes[i].pairs)], Len(sizes))

\* The model stops calling before its bounds are exceeded.
WithinBounds ==
    /\ last.res # "panic"
    /\ BagCardinality(blocks) < MaxBlocks
    /\ Len(device) < MaxObjects
    /\ \A t \in TypeIdx :
          /\ FifoLen(t) < MaxFifo
          /\ PairCount(t) < MaxPairs
          /\ ReadyOffset(t, "chunks") < MaxOffset
          /\ ReadyOffset(t, "chunks_unmapped") < MaxOffset

Commit(a) ==
    /\ UNCHANGED <<build, workload>>
    /\ memory_heaps' = a.heaps
    /\ allocations_remains' = a.remains
    /\ linear_allocators' = a.lin
    /\ buddy_allocators' = a.bud
    /\ device' = a.dev

Abort ==
    UNCHANGED <<build, workload, memory_heaps, allocations_remains, linear_allocators,
                buddy_allocators, device, blocks>>

\* The caller takes what alloc returned: the block joins the live blocks;
\* a panic ends the run.
AllocReturn(request, strategy, r) ==
    /\ last' = Last("alloc", request, strategy, r.res, r.block, r.a, Current)
    /\ IF r.res = "panic" THEN Abort
       ELSE /\ Commit(r.a)
            /\ blocks' = IF r.res = "Ok" THEN blocks (+) SetToBag({r.block[1]})
                         ELSE blocks

\* The caller after dealloc returned the allocator as a.
DeallocReturn(block, a) ==
    /\ last' = Last("dealloc", NoRequest, "None",
                    IF a.panic THEN "panic" ELSE "Ok", <<block>>, a, Current)
    /\ IF a.panic THEN Abort
       ELSE /\ Commit(a)
            /\ blocks' = blocks (-) SetToBag({block})

\* Whether the call, with the device answering al to allocate_memory, asks
\* the device to map memory.
MapsAsked(call, al, side) ==
    alloc_internal(Current, call[1], call[2], Oracle(al, "Ok", side)).a.maps > 0

\* GpuAllocator::alloc / alloc_with_strategy, answered by the device as o.
AllocWith(request, strategy, o) ==
    AllocReturn(request, strategy, alloc_internal(Current, request, strategy, o))

\* What the device may answer differs from the base answer only where the
\* operation asks the device at all.
Alloc ==
    /\ WithinBounds
    /\ \E call \in Calls(workload), side \in IF Debug THEN {"Left"} ELSE Sides :
          /\ \E base \in {alloc_internal(Current, call[1], call[2],
                                         Oracle(<<>>, "Ok", side))} :
                /\ (side = "Right" => base.a.ub)
                /\ \E al \in IF base.a.calls = 0 THEN {<<>>} ELSE AllocOutcomes :
                      \E mp \in IF MapsAsked(call, al, side) THEN MapOutcomes ELSE {"Ok"} :
                          AllocWith(call[1], call[2], Oracle(al, mp, side))

Dealloc ==
    /\ last.res # "panic"
    /\ \E block \in BagToSet(blocks) : DeallocReturn(block, dealloc(Current, block))

Next == Alloc \/ Dealloc

Spec == Init /\ [][Next]_vars

\* ------------------------------------------------------ GpuAllocator::new
\* The values the caller may put into the thresholds of Config and into
\* max_memory_allocation_size, and the atom sizes the device may report.
ThresholdInputs == {0, 1, 2, WordMax}
AtomInputs == {1, 2, 3, Pow2(WordBits - 1)}

ConfigInputs ==
    { [config EXCEPT !.dedicated_treshold = d, !.preferred_dedicated_treshold = p,
                     !.transient_dedicated_treshold = t] :
        d \in ThresholdInputs, p \in ThresholdInputs, t \in ThresholdInputs }

PropsInputs ==
    { [props EXCEPT !.max_memory_allocation_size = m, !.non_coherent_atom_size = n] :
        m \in ThresholdInputs, n \in AtomInputs }

\* GpuAllocator::new(config, props): the two asserts, then the fields.
GpuAllocatorNew(cfg, p) ==
    IF ~is_power_of_two(p.non_coherent_atom_size) THEN [panic |-> TRUE]
    ELSE IF p.non_coherent_atom_size > Pow2(WordBits - 1) - 1 THEN [panic |-> TRUE]
    ELSE [ panic |-> FALSE,
           stored |-> Thresholds(cfg, p),
           max_memory_allocation_size |-> p.max_memory_allocation_size,
           memory_heaps |-> [h \in DOMAIN p.memory_heaps |-> HeapNew(p.memory_heaps[h].size)],
           allocations_remains |-> p.max_memory_allocation_count,
           non_coherent_atom_mask |-> p.non_coherent_atom_size - 1,
           linear_allocators |-> [t \in DOMAIN p.memory_types |-> <<>>],
           buddy_allocators |-> [t \in DOMAIN p.memory_types |-> <<>>] ]

\* Before construction: the caller holds a Config and the DeviceProperties,
\* no allocator exists.
InitNew ==
    /\ build \in {"debug", "release"}
    /\ workload = "new"
    /\ memory_heaps = <<>>
    /\ allocations_remains = 0
    /\ linear_allocators = <<>>
    /\ buddy_allocators = <<>>
    /\ device = <<>>
    /\ blocks = EmptyBag
    /\ \E cfg \in ConfigInputs, p \in PropsInputs :
          last = [op |-> "input", config |-> cfg, props |-> p, res |-> "Ok",
                  stored |-> <<>>, non_coherent_atom_mask |-> 0]

\* The caller takes the allocator g that GpuAllocator::new built.
NewReturn(g) ==
    /\ UNCHANGED <<build, workload, device, blocks>>
    /\ IF g.panic
       THEN /\ last' = [last EXCEPT !.op = "new", !.res = "panic"]
            /\ UNCHANGED <<memory_heaps, allocations_remains, linear_allocators,
                           buddy_allocators>>
       ELSE /\ last' = [last EXCEPT !.op = "new", !.stored = g.stored,
                                    !.non_coherent_atom_mask = g.non_coherent_atom_mask]
            /\ memory_heaps' = g.memory_heaps
            /\ allocations_remains' = g.allocations_remains
            /\ linear_allocators' = g.linear_allocators
            /\ buddy_allocators' = g.buddy_allocators

New ==
    /\ last.op = "input"
    /\ NewReturn(GpuAllocatorNew(last.config, last.props))

NextNew == New

SpecNew == InitNew /\ [][NextNew]_vars

\* ----------------------------------------------------------- MemoryBlock
\* The device as the operations of a block see it: its memory objects, the
\* map_memory, unmap_memory, flush_memory_ranges and invalidate_memory_ranges
\* calls of the running operation, the range of the last map_memory call and
\* the MappedMemoryRange of the last flush or invalidate call.
DeviceOf(dev) ==
    [dev |-> dev, maps |-> 0, unmaps |-> 0, range |-> <<>>,
     flushes |-> 0, invalidates |-> 0, flushed |-> <<>>]

BlockResult(block, d, res, ptr) == [block |-> block, d |-> d, res |-> res, ptr |-> ptr]

\* assert_unmapped with the assertion left out.
assert_unmapped_Skipped(block) == TRUE

\* MemoryBlock::assert_unmapped: whether the assertion passes.
assert_unmapped(block) == ~block.mapped

\* MemoryBlock::assert_mapped: whether the assertion passes.
assert_mapped(block) == block.mapped

\* The Dedicated arm of map_memory_internal: the range handed to the device
\* starts at self.offset + aligned_offset and is offset + size -
\* aligned_offset long; the pointer is moved forward by the shift.
MapDedicated(block, d, offset, size, aligned_offset, mp) ==
    IF Debug /\ offset + size > WordMax THEN BlockResult(block, d, "panic", 0)
    ELSE IF Debug /\ block.offset + aligned_offset > WordMax
    THEN BlockResult(block, d, "panic", 0)
    ELSE
    With((block.offset + aligned_offset) % (WordMax + 1), LAMBDA start :
    With((offset + size + (WordMax + 1) - aligned_offset) % (WordMax + 1),
         LAMBDA aligned_size :
    With(map_memory(d, block.memory, [map |-> mp]), LAMBDA m :
    With([m.a EXCEPT !.range = <<start, aligned_size>>], LAMBDA d1 :
        IF m.r # "Ok" THEN BlockResult(block, d1, m.r, 0)
        ELSE BlockResult(block, d1, "Ok", start + (offset - aligned_offset))))))

\* MemoryBlock::map_memory_internal; size is the length the caller asked
\* for, mp what the device answers if it is asked.
map_memory_internal(block, d, offset, size, mp) ==
    IF align_up(size, block.map_mask) = NoneIdx THEN BlockResult(block, d, "panic", 0)
    ELSE IF ~(offset < block.size) THEN BlockResult(block, d, "panic", 0)
    ELSE IF ~(size <= block.size - offset) THEN BlockResult(block, d, "panic", 0)
    ELSE IF block.flavor = "Dedicated"
    THEN MapDedicated(block, d, offset, align_up(size, block.map_mask),
                      align_down(offset, block.map_mask), mp)
    ELSE IF block.ptr # <<>>
    THEN IF offset > Pow2(WordBits - 1) - 1 THEN BlockResult(block, d, "panic", 0)
         ELSE BlockResult(block, d, "Ok", block.ptr[1] + offset)
    ELSE BlockResult(block, d, "NonHostVisible", 0)

\* MemoryBlock::unmap_memory_internal
unmap_memory_internal(block, d) ==
    IF block.flavor = "Dedicated"
    THEN [d EXCEPT !.dev[block.memory].mapped = FALSE, !.unmaps = @ + 1]
    ELSE d

\* map that marks the block as mapped before it looks at the result of
\* map_memory_internal.
map_MarksFirst(block, d, offset, size, mp) ==
    IF ~assert_unmapped(block) THEN BlockResult(block, d, "panic", 0)
    ELSE With(map_memory_internal(block, d, offset, size, mp), LAMBDA r :
             IF r.res = "panic" THEN r ELSE [r EXCEPT !.block.mapped = TRUE])

\* MemoryBlock::map
map(block, d, offset, size, mp) ==
    IF ~assert_unmapped(block) THEN BlockResult(block, d, "panic", 0)
    ELSE With(map_memory_internal(block, d, offset, size, mp), LAMBDA r :
             IF r.res # "Ok" THEN r ELSE [r EXCEPT !.block.mapped = TRUE])

\* MemoryBlock::unmap
unmap(block, d) ==
    IF ~assert_mapped(block) THEN BlockResult(block, d, "panic", 0)
    ELSE BlockResult([block EXCEPT !.mapped = FALSE], unmap_memory_internal(block, d),
                     "Ok", 0)

\* MemoryBlock::coherent
coherent(block) == "HOST_COHERENT" \in memory_types[block.memory_type].props

\* MemoryDevice::flush_memory_ranges with one range; fl is what the device
\* answers.
flush_memory_ranges(d, offset, size, fl) ==
    [d |-> [d EXCEPT !.flushes = @ + 1, !.flushed = <<offset, size>>], r |-> fl]

\* MemoryDevice::invalidate_memory_ranges with one range.
invalidate_memory_ranges(d, offset, size, fl) ==
    [d |-> [d EXCEPT !.invalidates = @ + 1, !.flushed = <<offset, size>>], r |-> fl]

\* MemoryBlock::write_bytes with data of length size: the pointer, the
\* copy, the flush of memory that is not coherent, the unmap.
write_bytes(block, d, offset, size, mp, fl) ==
    IF ~assert_unmapped(block) THEN BlockResult(block, d, "panic", 0)
    ELSE With(map_memory_internal(block, d, offset, size, mp), LAMBDA r :
             IF r.res # "Ok" THEN r
             ELSE With(IF ~coherent(block)
                       THEN flush_memory_ranges(r.d, align_down(offset, block.map_mask),
                                                align_up(size, block.map_mask), fl)
                       ELSE [d |-> r.d, r |-> "Ok"], LAMBDA f :
                      BlockResult(block, unmap_memory_internal(block, f.d), f.r, r.ptr)))

\* MemoryBlock::read_bytes into a buffer of length size.
read_bytes(block, d, offset, size, mp, fl) ==
    IF ~assert_unmapped(block) THEN BlockResult(block, d, "panic", 0)
    ELSE With(map_memory_internal(block, d, offset, size, mp), LAMBDA r :
             IF r.res # "Ok" THEN r
             ELSE With(IF ~coherent(block)
                       THEN invalidate_memory_ranges(r.d,
                                align_down(offset, block.map_mask),
                                align_up(size, block.map_mask), fl)
                       ELSE [d |-> r.d, r |-> "Ok"], LAMBDA f :
                      BlockResult(block, unmap_memory_internal(block, f.d), f.r, r.ptr)))

\* The allocator as GpuAllocator::new leaves it, with no call running.
Fresh ==
    [heaps |-> [h \in HeapIdx |-> HeapNew(props.memory_heaps[h].size)],
     remains |-> props.max_memory_allocation_count,
     lin |-> [t \in TypeIdx |-> <<>>], bud |-> [t \in TypeIdx |-> <<>>], dev |-> <<>>,
     calls |-> 0, answers |-> <<>>, tried |-> 0, maps |-> 0, ub |-> FALSE,
     panic |-> FALSE]

\* The calls that hand the caller a Linear or Buddy block, with the answers
\* of the device to allocate_memory and to map_memory: on either memory
\* type, from a host-mapped chunk and from a chunk that is not mapped.
BlockCalls ==
    { <<Request(1, 0, {}, 3), "None", <<>>, "Ok">>,
      <<Request(1, 0, {"HOST_ACCESS"}, 3), "None", <<>>, "Ok">>,
      <<Request(3, 0, {"TRANSIENT"}, 3), "None", <<>>, "Ok">>,
      <<Request(3, 0, {"TRANSIENT"}, 3), "None", <<"OutOfDeviceMemory">>, "MapFailed">>,
      <<Request(3, 0, {"TRANSIENT"}, 3), "None", <<"OutOfDeviceMemory">>, "Ok">>,
      <<Request(3, 0, {"HOST_ACCESS"}, 3), "Linear", <<>>, "Ok">> }

\* The sizes of the Dedicated blocks.
DedicatedSizes == {1, 3, 4}

\* The allocator between two calls: the counters of the running call are
\* cleared.
Settled(a) == [a EXCEPT !.calls = 0, !.answers = <<>>, !.tried = 0, !.maps = 0]

\* The second of two equal Linear allocations that the device-local type
\* refuses: a block at an offset other than 0 of a mapped chunk on
\* host-visible memory that is not coherent.
SecondCall == <<Request(3, 0, {"TRANSIENT"}, 3), "None", <<"OutOfDeviceMemory">>, "Ok">>

SecondWorlds ==
    { alloc_internal(Settled(w.a), SecondCall[1], SecondCall[2],
                     Oracle(SecondCall[3], SecondCall[4], "Left")) :
        w \in { r \in { alloc_internal(Fresh, SecondCall[1], SecondCall[2],
                                       Oracle(SecondCall[3], SecondCall[4], "Left")) } :
                   r.res = "Ok" } }

\* A block in the caller's hands after one successful allocation, or the
\* second block after two, with the allocator and the device that go with
\* it.  A Dedicated block is what the Dedicated arm builds once a memory
\* type gets past the test of its heap budget.
BlockWorlds ==
    { r \in { alloc_internal(Fresh, c[1], c[2], Oracle(c[3], c[4], "Left")) :
                c \in BlockCalls }
            \cup SecondWorlds
            \cup { DedicatedArm(Fresh, t, Request(sz, 0, {}, 3), Oracle(<<>>, "Ok", "Left")) :
                      t \in TypeIdx, sz \in DedicatedSizes } :
        r.res = "Ok" }

InitBlock ==
    /\ build \in {"debug", "release"}
    /\ workload = "block"
    /\ \E w \in BlockWorlds :
          /\ memory_heaps = w.a.heaps
          /\ allocations_remains = w.a.remains
          /\ linear_allocators = w.a.lin
          /\ buddy_allocators = w.a.bud
          /\ device = w.a.dev
          /\ blocks = SetToBag({w.block[1]})
          /\ last = [op |-> "alloc", res |-> "Ok", block |-> w.block, pre |-> w.block,
                     offset |-> 0, size |-> 0, ptr |-> 0, maps |-> 0, unmaps |-> 0,
                     range |-> <<>>, flushes |-> 0, invalidates |-> 0,
                     flushed |-> <<>>]

\* What the caller may pass to map.
MapOffsets == 0..MaxMapOffset
MapSizes == 0..MaxMapSize

\* The caller after a block operation returned r: the block is changed in
\* place, also when the operation panicked.
BlockReturn(op, block, offset, size, r) ==
    /\ last' = [op |-> op, res |-> r.res, block |-> <<r.block>>, pre |-> <<block>>,
                offset |-> offset, size |-> size, ptr |-> r.ptr, maps |-> r.d.maps,
                unmaps |-> r.d.unmaps, range |-> r.d.range, flushes |-> r.d.flushes,
                invalidates |-> r.d.invalidates, flushed |-> r.d.flushed]
    /\ blocks' = (blocks (-) SetToBag({block})) (+) SetToBag({r.block})
    /\ device' = r.d.dev
    /\ UNCHANGED <<build, workload, memory_heaps, allocations_remains,
                   linear_allocators, buddy_allocators>>

\* Whether map asks the device to map memory.
MapAsksDevice(block, offset, size) ==
    map(block, DeviceOf(device), offset, size, "Ok").d.maps > 0

Map ==
    /\ last.res # "panic"
    /\ \E block \in BagToSet(blocks), offset \in MapOffsets, size \in MapSizes :
          \E mp \in IF MapAsksDevice(block, offset, size) THEN MapOutcomes ELSE {"Ok"} :
              BlockReturn("map", block, offset, size,
                          map(block, DeviceOf(device), offset, size, mp))

Unmap ==
    /\ last.res # "panic"
    /\ \E block \in BagToSet(blocks) :
          BlockReturn("unmap", block, 0, 0, unmap(block, DeviceOf(device)))

\* What the device may answer to flush_memory_ranges and
\* invalidate_memory_ranges: its Result<(), OutOfMemory>.
FlushOutcomes == {"Ok", "OutOfDeviceMemory", "OutOfHostMemory"}

\* Whether write_bytes or read_bytes reaches the flush or the invalidate.
SyncAsksDevice(block, offset, size, mp) ==
    With(write_bytes(block, DeviceOf(device), offset, size, mp, "Ok").d, LAMBDA d :
        d.flushes > 0)

WriteBytes ==
    /\ last.res # "panic"
    /\ \E block \in BagToSet(blocks), offset \in MapOffsets, size \in MapSizes :
          \E mp \in IF MapAsksDevice(block, offset, size) THEN MapOutcomes ELSE {"Ok"} :
              \E fl \in IF SyncAsksDevice(block, offset, size, mp) THEN FlushOutcomes
                         ELSE {"Ok"} :
                  BlockReturn("write_bytes", block, offset, size,
                              write_bytes(block, DeviceOf(device), offset, size, mp, fl))

ReadBytes ==
    /\ last.res # "panic"
    /\ \E block \in BagToSet(blocks), offset \in MapOffsets, size \in MapSizes :
          \E mp \in IF MapAsksDevice(block, offset, size) THEN MapOutcomes ELSE {"Ok"} :
              \E fl \in IF SyncAsksDevice(block, offset, size, mp) THEN FlushOutcomes
                         ELSE {"Ok"} :
                  BlockReturn("read_bytes", block, offset, size,
                              read_bytes(block, DeviceOf(device), offset, size, mp, fl))

NextBlock == Map \/ Unmap \/ WriteBytes \/ ReadBytes

SpecBlock == InitBlock /\ [][NextBlock]_vars

\* ------------------------------------------------------------ properties
LiveObjects == {m \in 1..Len(device) : device[m].allocated}

BlockSet == BagToSet(blocks)

Returned == last.op = "alloc" /\ last.res = "Ok"

Overlap(b1, b2) ==
    /\ b1.memory = b2.memory
    /\ b1.offset < b2.offset + b2.size
    /\ b2.offset < b1.offset + b1.size

C2_QuotaCountsOutstanding ==
    props.max_memory_allocation_count - allocations_remains = Cardinality(LiveObjects)

\* C3: no two live MemoryBlocks of the same device memory object overlap in
\* [offset, offset + size).
C3_NoOverlap ==
    /\ \A b \in BlockSet : CopiesIn(b, blocks) = 1 \/ b.size = 0
    /\ \A b1, b2 \in BlockSet : b1 # b2 => ~Overlap(b1, b2)

\* C4: deallocate_memory is called at most once for every device memory
\* object the allocator obtains, and no call passes to deallocate_memory an
\* object that a block still live after the call refers to.
C4_FreedOnceNeverWhileLive ==
    /\ [](\A m \in 1..Len(device) : device[m].frees <= 1)
    /\ [][\A m \in 1..Len(device) :
            (device[m].allocated /\ ~device'[m].allocated)
                => \A b \in BagToSet(blocks') : b.memory # m]_vars

\* C5: every block returned by alloc lies inside its device memory object:
\* offset + size <= the size of the object.
C5_BlockInsideObject ==
    Returned => last.block[1].offset + last.block[1].size
                    <= device[last.block[1].memory].size

\* C6: every block returned by alloc has an offset that is a multiple of the
\* effective alignment: offset & (align_mask | atom_mask) = 0.
C6_OffsetAligned ==
    Returned => BitAnd(last.block[1].offset,
                       BitOr(last.request.align_mask,
                             MapMask(last.block[1].memory_type))) = 0

\* C6 witness: a block with a request alignment of 4 was returned at an
\* offset other than 0.
C6_Witness ==
    Returned /\ last.request.align_mask = 3 /\ last.block[1].offset > 0

\* C7: a block returned by alloc has a memory_type whose bit is set in
\* request.memory_types.
C7_TypeInRequestBitset ==
    Returned => BitAnd(Pow2(last.block[1].memory_type), last.request.memory_types) # 0

\* C8: once every successfully allocated block has been deallocated, every
\* heap's used value equals its value at the start (0).
C8_UsedReturnsToStart ==
    (blocks = EmptyBag) => \A h \in HeapIdx : memory_heaps[h].used = 0

ChunkCount(t) ==
    IF buddy_allocators[t] = <<>> THEN 0
    ELSE Cardinality({i \in 0..(SlabLen(buddy_allocators[t][1].chunks) - 1) :
                         SlabOccupied(buddy_allocators[t][1].chunks, i)})

\* C9: after every block allocated from a buddy allocator has been
\* deallocated, the buddy allocators hold no chunks and allocations_remains
\* is back to its value before the first allocation.
C9_BuddyEmptiesOut ==
    (workload \in {"buddy", "buddy_host"} /\ blocks = EmptyBag)
        => /\ \A t \in TypeIdx : ChunkCount(t) = 0
           /\ allocations_remains = props.max_memory_allocation_count

\* C10: a call made with allocations_remains = 0 does not call
\* device.allocate_memory, and the device never holds more than
\* max_memory_allocation_count objects of the allocator.
C10_QuotaRespected ==
    /\ (last.op = "alloc" /\ last.pre_remains = 0) => last.calls = 0
    /\ Cardinality(LiveObjects) <= props.max_memory_allocation_count

\* The strategy the last alloc call worked with, the candidate memory types
\* it walked, and whether it got past the checks that precede the loop.
LastUsage == with_implicit_usage_flags(last.request.usage)

LastChosen ==
    ChosenStrategy([remains |-> last.pre_remains], last.request.size, LastUsage,
                   last.strategy)

LastCandidates == memory_for_usage_types(LastUsage)

LastAccepted ==
    /\ last.op = "alloc" /\ last.res # "panic"
    /\ last.request.size <= max_memory_allocation_size
    /\ BitAnd(memory_for_usage_mask(LastUsage), last.request.memory_types) # 0

DeviceSucceeded == \A i \in 1..Len(last.answers) : last.answers[i] = "Ok"

PreBudget(t) == props.memory_heaps[HeapOf(t)].size - last.pre_used[HeapOf(t)]

\* C11: a Dedicated allocation whose size is within the budget of a
\* candidate memory type's heap, made with quota remaining and a device that
\* succeeds, returns a block with offset 0, size = request.size, mapped =
\* false and flavor Dedicated, decrements allocations_remains by one and
\* increases that heap's used by request.size.
C11_DedicatedServed ==
    (/\ LastAccepted /\ LastChosen = "Dedicated" /\ last.pre_remains > 0
     /\ DeviceSucceeded
     /\ \E i \in 1..Len(LastCandidates) : PreBudget(LastCandidates[i]) >= last.request.size)
        => /\ last.res = "Ok"
           /\ last.block[1].offset = 0
           /\ last.block[1].size = last.request.size
           /\ ~last.block[1].mapped
           /\ last.block[1].flavor = "Dedicated"
           /\ allocations_remains = last.pre_remains - 1
           /\ memory_heaps[HeapOf(last.block[1].memory_type)].used
                  = last.pre_used[HeapOf(last.block[1].memory_type)] + last.request.size

\* C12: with max_memory_allocation_count = N and enough heap budget, a
\* Dedicated request made while fewer than N device objects are outstanding
\* succeeds (so N in a row succeed, and so does the retry after one of the N
\* blocks was deallocated), and a Dedicated request made with the quota used
\* up fails with TooManyObjects.
C12_DedicatedUpToQuota ==
    (/\ LastAccepted /\ last.strategy = "Dedicated" /\ DeviceSucceeded
     /\ \A i \in 1..Len(LastCandidates) : PreBudget(LastCandidates[i]) >= last.request.size)
        => IF last.pre_remains > 0
           THEN last.res = "Ok" /\ last.block[1].flavor = "Dedicated"
           ELSE last.res = "TooManyObjects"

\* C13: a request with dedicated = Required is served only by the Dedicated
\* strategy: alloc either returns a Dedicated-flavor block occupying its own
\* device object or fails; it never returns a Linear or Buddy block.
C13_RequiredIsDedicated ==
    (Returned /\ last.strategy = "None" /\ last.request.dedicated = "Required")
        => /\ last.block[1].flavor = "Dedicated"
           /\ last.block[1].offset = 0
           /\ last.block[1].size = device[last.block[1].memory].size
           /\ \A b \in BlockSet : b.memory = last.block[1].memory => b = last.block[1]

\* C14: for a request whose usage contains TRANSIENT, made through alloc
\* with quota remaining, the Dedicated strategy is used if size is greater
\* than the configured transient_dedicated_treshold, and the Linear strategy
\* otherwise.
C14_TransientByThreshold ==
    (/\ LastAccepted /\ last.strategy = "None" /\ last.request.dedicated = "Indifferent"
     /\ "TRANSIENT" \in last.request.usage /\ last.pre_remains > 0)
        => /\ LastChosen = IF last.request.size > config.transient_dedicated_treshold
                           THEN "Dedicated" ELSE "Linear"
           /\ last.res = "Ok"
                 => last.block[1].flavor
                      = IF last.request.size > config.transient_dedicated_treshold
                        THEN "Dedicated" ELSE "Linear"

\* C15: a request of size exactly max_memory_allocation_size is never routed
\* to the Linear or Buddy sub-allocator by the automatic strategy choice of
\* alloc; only the Dedicated strategy may serve it.
C15_MaxSizeOnlyDedicated ==
    (/\ LastAccepted /\ last.strategy = "None"
     /\ last.request.size = props.max_memory_allocation_size)
        => /\ LastChosen = "Dedicated"
           /\ last.res = "Ok" => last.block[1].flavor = "Dedicated"

\* C16: for every Config and DeviceProperties, the thresholds stored by
\* GpuAllocator::new satisfy preferred_dedicated_treshold <=
\* dedicated_treshold <= transient_dedicated_treshold, and each of the three
\* is >= max_memory_allocation_size.
C16_ThresholdsOrdered ==
    (last.op = "new" /\ last.res = "Ok")
        => /\ last.stored.preferred_dedicated_treshold <= last.stored.dedicated_treshold
           /\ last.stored.dedicated_treshold <= last.stored.transient_dedicated_treshold
           /\ last.stored.preferred_dedicated_treshold
                 >= last.props.max_memory_allocation_size
           /\ last.stored.dedicated_treshold >= last.props.max_memory_allocation_size
           /\ last.stored.transient_dedicated_treshold
                 >= last.props.max_memory_allocation_size

\* C16 witness: new was given a Config whose preferred threshold is above
\* and whose transient threshold is below its dedicated threshold, and a
\* max_memory_allocation_size above the transient threshold.
C16_Witness ==
    /\ last.op = "new" /\ last.res = "Ok"
    /\ last.config.preferred_dedicated_treshold > last.config.dedicated_treshold
    /\ last.config.transient_dedicated_treshold < last.config.dedicated_treshold
    /\ last.props.max_memory_allocation_size > last.config.transient_dedicated_treshold
    /\ last.stored.preferred_dedicated_treshold = last.config.dedicated_treshold

\* The last alloc call was given a request none of whose memory types
\* supports the usage: mask(usage) & request.memory_types = 0.
LastIncompatible ==
    /\ last.op = "alloc"
    /\ BitAnd(memory_for_usage_mask(LastUsage), last.request.memory_types) = 0

\* C17: alloc fails with NoCompatibleMemoryTypes whenever mask(usage) &
\* request.memory_types = 0, whatever the size of the request, and the
\* rejection happens before any device call or allocator state change.
C17_IncompatibleRejectedFirst ==
    LastIncompatible
        => /\ last.res = "NoCompatibleMemoryTypes"
           /\ last.calls = 0
           /\ allocations_remains = last.pre_remains
           /\ \A h \in HeapIdx : memory_heaps[h].used = last.pre_used[h]

\* The number of allocate_memory calls of the last call that the device
\* answered with OutOfDeviceMemory.
Refusals ==
    Cardinality({i \in 1..Len(last.answers) : last.answers[i] = "OutOfDeviceMemory"})

\* A candidate memory type refused by the device is followed by the next
\* candidate, and an error other than OutOfDeviceMemory ends the call: the
\* device's OutOfHostMemory is the answer to the last device call and is
\* the result, and TooManyObjects is the result of the last turn of the loop.
ErrorPolicy ==
    /\ Refusals > 0 => last.tried >= Min(Refusals + 1, Len(LastCandidates))
    /\ \A i \in 1..Len(last.answers) :
          last.answers[i] = "OutOfHostMemory"
              => i = Len(last.answers) /\ last.res = "OutOfHostMemory"
    /\ last.res = "TooManyObjects" => last.tried <= Len(last.answers) + 1

\* Every candidate memory type of the request (compatible with the usage
\* and in request.memory_types) has had its turn in the loop.
EveryCandidateTried ==
    \A i \in 1..Len(LastCandidates) :
        BitAnd(Pow2(LastCandidates[i]), last.request.memory_types) # 0 => i <= last.tried

\* C18 as stated: within alloc an OutOfDeviceMemory result for one candidate
\* memory type makes the allocator try the next candidate, OutOfDeviceMemory
\* is returned to the caller only after every candidate has been tried, and
\* any other error from a candidate is returned immediately.
C18_Original ==
    (last.op = "alloc" /\ last.res # "panic")
        => /\ ErrorPolicy
           /\ last.res = "OutOfDeviceMemory" => EveryCandidateTried

\* C18: within alloc an OutOfDeviceMemory result for one candidate memory
\* type makes the allocator try the next candidate; for a request of size
\* <= max_memory_allocation_size OutOfDeviceMemory is returned only after
\* every candidate memory type of the request has been tried (a larger
\* request is rejected with OutOfDeviceMemory before the loop); any other
\* error from a candidate is returned immediately.
C18_OutOfDeviceMemoryTriesNext ==
    (last.op = "alloc" /\ last.res # "panic")
        => /\ ErrorPolicy
           /\ (last.res = "OutOfDeviceMemory"
                  /\ last.request.size <= max_memory_allocation_size)
                 => EveryCandidateTried

\* C18 witness: the device refused the first candidate with
\* OutOfDeviceMemory and the call was served by the second candidate.
C18_Witness ==
    /\ last.op = "alloc" /\ last.res = "Ok"
    /\ Len(last.answers) = 2 /\ last.answers[1] = "OutOfDeviceMemory"
    /\ last.tried = 2
    /\ last.block[1].memory_type = LastCandidates[2]

\* The block the caller holds in a run of map and unmap calls.
TheBlock == CHOOSE b \in BagToSet(blocks) : TRUE

\* C19: for every MemoryBlock and every sequence of map/unmap calls, mapped
\* is true exactly between a successful map and the next unmap: it is false
\* when alloc returns the block, a successful map sets it, a successful
\* unmap clears it, nothing else changes it; map on a mapped block and unmap
\* on an unmapped block panic without changing the block or calling the
\* device.
C19_MappedBetweenMapAndUnmap ==
    /\ ~TheBlock.mapped
    /\ [][ /\ TheBlock'.mapped
                = IF last'.op = "map" /\ last'.res = "Ok" THEN TRUE
                  ELSE IF last'.op = "unmap" /\ last'.res = "Ok" THEN FALSE
                  ELSE TheBlock.mapped
           /\ (last'.op = "map" /\ last'.res = "Ok") => ~TheBlock.mapped
           /\ (last'.op = "unmap" /\ last'.res = "Ok") => TheBlock.mapped
           /\ ((last'.op = "map" /\ TheBlock.mapped)
                   \/ (last'.op = "unmap" /\ ~TheBlock.mapped))
                 => /\ last'.res = "panic"
                    /\ TheBlock' = TheBlock
                    /\ device' = device
                    /\ last'.maps = 0 /\ last'.unmaps = 0 ]_vars

\* C19 witness: a block was mapped and map was called on it again.
C19_Witness ==
    /\ last.op = "map" /\ last.res = "panic"
    /\ last.pre[1].mapped /\ TheBlock.mapped

\* The arguments of the last map call pass the bounds checks of
\* map_memory_internal.
MapInBounds ==
    /\ last.offset < last.pre[1].size
    /\ last.size <= last.pre[1].size - last.offset

SyncBlock == last.pre[1]

SyncCalls == last.flushes + last.invalidates

\* C21: write_bytes calls flush_memory_ranges and read_bytes calls
\* invalidate_memory_ranges exactly when the memory type of the block is
\* host-visible and not host-coherent (a call that returns Ok on such a
\* type has made the call, and no call is made on any other type), and the
\* offset and the size of every emitted range are multiples of
\* non_coherent_atom_size.
C21_SyncExactlyNonCoherent ==
    last.op \in {"write_bytes", "read_bytes"} =>
        /\ last.op = "write_bytes" => last.invalidates = 0
        /\ last.op = "read_bytes" => last.flushes = 0
        /\ SyncCalls > 0 =>
              /\ host_visible_non_coherent(memory_types[SyncBlock.memory_type].props)
              /\ last.flushed[1] % props.non_coherent_atom_size = 0
              /\ last.flushed[2] % props.non_coherent_atom_size = 0
        /\ (host_visible_non_coherent(memory_types[SyncBlock.memory_type].props)
               /\ last.res = "Ok") => SyncCalls = 1

\* The stream of a Linear block: the mapped chunks for a block with a
\* pointer, the unmapped chunks otherwise.
StreamOf(b) == IF b.ptr # <<>> THEN "chunks" ELSE "chunks_unmapped"

\* Whether, before the call, the stream that served block b held a ready
\* chunk in which the request fits past the cursor: align_up(cursor,
\* align_mask | atom_mask) + size <= chunk_size.
CursorFits(b, request) ==
    /\ linear_allocators[b.memory_type] # <<>>
    /\ LET la == linear_allocators[b.memory_type][1]
           mask == BitOr(request.align_mask, la.atom_mask)
       IN  /\ la[StreamOf(b)].ready # <<>>
           /\ align_up(la[StreamOf(b)].ready[1].offset, mask) # NoneIdx
           /\ align_up(la[StreamOf(b)].ready[1].offset, mask) + request.size
                  <= la.chunk_size

\* C22: a Linear block is served from the ready chunk of its stream (no new
\* device object) exactly when align_up(cursor, align_mask | atom_mask) +
\* size fits within chunk_size; otherwise the call allocates one new device
\* chunk and the block comes from it.
C22_ReadyServesWhenCursorFits ==
    [][ (last'.op = "alloc" /\ last'.res = "Ok" /\ last'.block[1].flavor = "Linear")
          => /\ (last'.block[1].memory <= Len(device))
                    <=> CursorFits(last'.block[1], last'.request)
             /\ (last'.block[1].memory > Len(device))
                    => Len(device') = Len(device) + 1 ]_vars

\* The live Linear blocks of the stream that block b belongs to.
StreamBlocks(b) ==
    {c \in BlockSet : /\ c.flavor = "Linear" /\ c.memory_type = b.memory_type
                      /\ StreamOf(c) = StreamOf(b)}

\* C23: once all blocks of the k earliest chunks of a Linear stream are
\* deallocated, those chunks are returned to the device, removed from the
\* front of the exhausted FIFO, and chunk_id_offset has advanced by k.  After
\* a dealloc that returned a chunk to the device: the front of the FIFO is
\* not a freed slot, and if no live block of the stream sits in that chunk or
\* an earlier one, chunk_id_offset has moved past the chunk.
C23_FreedFrontPopped ==
    (/\ last.op = "dealloc" /\ last.res = "Ok" /\ last.block[1].flavor = "Linear"
     /\ ~device[last.block[1].memory].allocated)
        => LET b == last.block[1]
               chunks == linear_allocators[b.memory_type][1][StreamOf(b)]
           IN  /\ Len(chunks.exhausted) > 0 => chunks.exhausted[1] # <<>>
               /\ (\A c \in StreamBlocks(b) : c.chunk > b.chunk)
                      => chunks.offset > b.chunk

\* The streams of a LinearAllocator.
Streams == {"chunks", "chunks_unmapped"}

\* Whether device memory object m is the ready chunk of a Linear stream.
IsReadyChunk(m) ==
    \E t \in TypeIdx, st \in Streams :
        /\ linear_allocators[t] # <<>>
        /\ linear_allocators[t][1][st].ready # <<>>
        /\ linear_allocators[t][1][st].ready[1].memory = m

\* The exhausted chunks of a stream that are still in its FIFO.
ExhaustedOf(t, st) ==
    IF linear_allocators[t] = <<>> THEN {}
    ELSE LET ex == linear_allocators[t][1][st].exhausted
         IN  {ex[i][1] : i \in {j \in 1..Len(ex) : ex[j] # <<>>}}

\* The live counts of the exhausted chunks that hold memory object m.
ExhaustedCounts(m) ==
    {e.allocated : e \in {x \in UNION {ExhaustedOf(t, st) : t \in TypeIdx, st \in Streams} :
                             x.memory = m}}

\* C24: a Linear chunk is returned to the device only by the dealloc that
\* brings its live count to 0 while it is exhausted, never while it is the
\* ready chunk of its stream and never with a live block left in it: the
\* dealloc of a block of the ready chunk decrements the live count and keeps
\* the chunk allocated.
C24_OnlyDeadExhaustedFreed ==
    [][ /\ \A m \in 1..Len(device) :
              (/\ device[m].allocated /\ ~device'[m].allocated
               /\ (IsReadyChunk(m) \/ ExhaustedCounts(m) # {}))
                  => /\ ~IsReadyChunk(m)
                     /\ ExhaustedCounts(m) = {1}
                     /\ last'.op = "dealloc"
                     /\ last'.block[1].memory = m
                     /\ \A b \in BagToSet(blocks') : b.memory # m
        /\ (/\ last'.op = "dealloc" /\ last'.res = "Ok"
            /\ last'.block[1].flavor = "Linear"
            /\ IsReadyChunk(last'.block[1].memory))
              => LET b == last'.block[1]
                     t == b.memory_type
                 IN  /\ device'[b.memory].allocated
                     /\ linear_allocators'[t][1][StreamOf(b)].ready # <<>>
                     /\ linear_allocators'[t][1][StreamOf(b)].ready[1].memory = b.memory
                     /\ linear_allocators'[t][1][StreamOf(b)].ready[1].allocated
                            = (linear_allocators[t][1][StreamOf(b)].ready[1].allocated
                               + WordMax) % (WordMax + 1) ]_vars

\* C24 witness: a dealloc has returned an exhausted chunk to the device
\* while the ready chunk of the same stream, its live count at 0 after the
\* dealloc of its last block, is still allocated.
C24_Witness ==
    /\ last.op = "dealloc" /\ last.res = "Ok" /\ last.block[1].flavor = "Linear"
    /\ ~device[last.block[1].memory].allocated
    /\ LET chunks == linear_allocators[last.block[1].memory_type][1][StreamOf(last.block[1])]
       IN  /\ chunks.ready # <<>>
           /\ chunks.ready[1].allocated = 0
           /\ device[chunks.ready[1].memory].allocated

\* The device memory objects the last call obtained from the device.
LastObtained == Len(SelectSeq(last.answers, LAMBDA r : r = "Ok"))

\* Whether the last call was a Linear allocation with HOST_ACCESS that
\* obtained a new chunk and failed: such a call walks host-visible types
\* only and maps every chunk it obtains, and the map of a new chunk that
\* succeeds makes the call succeed, so a map has failed.
LinearMapFailed ==
    /\ last.op = "alloc" /\ LastChosen = "Linear" /\ "HOST_ACCESS" \in LastUsage
    /\ LastObtained > 0
    /\ last.res \notin {"Ok", "panic"}

\* C25: when LinearAllocator obtains a new chunk on host-visible memory and
\* mapping it fails for a request with HOST_ACCESS, the new device object is
\* deallocated, allocations_remains and the heaps' used are back at their
\* values before the call, and the call returns OutOfHostMemory.
C25_MapFailureRestores ==
    LinearMapFailed =>
        /\ last.res = "OutOfHostMemory"
        /\ allocations_remains = last.pre_remains
        /\ \A h \in HeapIdx : memory_heaps[h].used = last.pre_used[h]
        /\ Cardinality(LiveObjects) = last.pre_live

\* C26: GpuAllocator never invokes LinearAllocator::alloc with a size
\* greater than the chunk_size of that allocator, min(linear_chunk, heap
\* size / 32): for every memory type on which the last call tried the Linear
\* strategy, request.size <= chunk_size.
C26_LinearSizeWithinChunk ==
    (last.op = "alloc" /\ LastChosen = "Linear") =>
        \A i \in 1..last.tried :
            last.request.size
                <= LinearChunkSize(config,
                       props.memory_heaps[HeapOf(LastCandidates[i])].size)

\* The host pointer of the chunk a mapped Linear or Buddy block was cut from,
\* as the allocator of its memory type holds it.
ChunkPtr(b) ==
    IF b.flavor = "Linear"
    THEN LET chunks == linear_allocators[b.memory_type][1].chunks
             index == b.chunk - chunks.offset
         IN  IF index = Len(chunks.exhausted)
             THEN chunks.ready[1].ptr[1]
             ELSE chunks.exhausted[index + 1][1].ptr[1]
    ELSE SlabGet(buddy_allocators[b.memory_type][1].chunks, b.chunk).ptr[1]

\* C27: the base pointer of a Linear or Buddy block of host-visible memory is
\* the pointer of its chunk plus block.offset, so a successful map(off, n) of
\* such a block returns chunk pointer + block.offset + off.
C27_BlockPointerIsChunkPlusOffset ==
    \A b \in BagToSet(blocks) :
        (b.flavor \in {"Linear", "Buddy"} /\ b.ptr # <<>>)
            => /\ b.ptr[1] = ChunkPtr(b) + b.offset
               /\ (last.op = "map" /\ last.res = "Ok")
                      => last.ptr = ChunkPtr(b) + b.offset + last.offset

\* The pairs of a size class that are in Ready state.
ReadyPairs(sz) ==
    { i \in 0..(SlabLen(sz.pairs) - 1) :
        SlabOccupied(sz.pairs, i) /\ SlabGet(sz.pairs, i).state = "Ready" }

RECURSIVE Visited(_, _, _)
\* The pairs met by following next from pair i, seen being those already met.
Visited(sz, i, seen) ==
    IF i \in seen \/ i \notin ReadyPairs(sz) THEN seen
    ELSE Visited(sz, SlabGet(sz.pairs, i).next, seen \cup {i})

\* The ready list of a size class is a circular doubly-linked list of
\* exactly its Ready pairs, rooted at ready.
ReadyListWellFormed(sz) ==
    IF sz.ready >= SlabLen(sz.pairs)
    THEN ReadyPairs(sz) = {}
    ELSE /\ sz.ready \in ReadyPairs(sz)
         /\ Visited(sz, sz.ready, {}) = ReadyPairs(sz)
         /\ \A i \in ReadyPairs(sz) :
               /\ SlabGet(sz.pairs, i).next \in ReadyPairs(sz)
               /\ SlabGet(sz.pairs, i).prev \in ReadyPairs(sz)
               /\ SlabGet(sz.pairs, SlabGet(sz.pairs, i).next).prev = i
               /\ SlabGet(sz.pairs, SlabGet(sz.pairs, i).prev).next = i

\* The size classes of the buddy allocators that exist.
SizeClasses ==
    { <<t, c>> \in TypeIdx \X (1..WordBits) :
        /\ buddy_allocators[t] # <<>>
        /\ c <= Len(buddy_allocators[t][1].sizes) }

\* C28: in every reachable state the ready list of every buddy size class is
\* well formed: ready is past the slab (empty list) or indexes a Ready pair,
\* following next from ready visits exactly the Ready pairs of the class, and
\* prev is the inverse of next.
C28_ReadyListWellFormed ==
    \A tc \in SizeClasses :
        ReadyListWellFormed(buddy_allocators[tc[1]][1].sizes[tc[2]])

\* The Buddy blocks the caller holds.
BuddyBlocks == { b \in BagToSet(blocks) : b.flavor = "Buddy" }

\* The size class (counted from 1) BuddyAllocator::dealloc releases b in.
ClassOf(b) ==
    trailing_zeros(b.size)
        - trailing_zeros(buddy_allocators[b.memory_type][1].minimal_size) + 1

\* index unpacks to a pair of sz and a side whose half, of the given size,
\* lies in the chunk at the offset.
Decodes(sz, index, chunk, offset, size) ==
    /\ SlabOccupied(sz.pairs, index \div 2)
    /\ SlabGet(sz.pairs, index \div 2).chunk = chunk
    /\ SlabGet(sz.pairs, index \div 2).offset + (index % 2) * size = offset

\* C29: the index of every live BuddyBlock unpacks, as (pair_index << 1) |
\* side_bit, to the pair and side of its size class whose chunk and offset
\* are the block's; distinct live blocks of one size class unpack to distinct
\* (pair_index, side); and the parent link of every pair unpacks in the same
\* way to the half of the pair one class up that the pair was split from.
C29_IndexPacking ==
    /\ \A b \in BuddyBlocks :
          /\ Decodes(buddy_allocators[b.memory_type][1].sizes[ClassOf(b)],
                     b.index, b.chunk, b.offset, b.size)
          /\ CopiesIn(b, blocks) = 1
    /\ \A b1, b2 \in BuddyBlocks :
          (b1 # b2 /\ b1.memory_type = b2.memory_type /\ b1.size = b2.size)
              => b1.index # b2.index
    /\ \A tc \in SizeClasses :
          LET ba == buddy_allocators[tc[1]][1]
              sz == ba.sizes[tc[2]]
          IN  \A i \in 0..(SlabLen(sz.pairs) - 1) :
                  (SlabOccupied(sz.pairs, i) /\ SlabGet(sz.pairs, i).parent # NoneIdx)
                      => /\ tc[2] < Len(ba.sizes)
                         /\ Decodes(ba.sizes[tc[2] + 1], SlabGet(sz.pairs, i).parent,
                                    SlabGet(sz.pairs, i).chunk,
                                    SlabGet(sz.pairs, i).offset,
                                    ba.minimal_size * Pow2(tc[2]))

\* A live Buddy block of memory type t lies in the given range of the chunk.
LiveBlockIn(t, chunk, offset, size) ==
    \E b \in BuddyBlocks :
        /\ b.memory_type = t
        /\ b.chunk = chunk
        /\ b.offset < offset + size
        /\ offset < b.offset + b.size

\* The last call was a dealloc of a Buddy block that returned.
BuddyDeallocReturned ==
    /\ last.op = "dealloc"
    /\ last.res # "panic"
    /\ last.block[1].flavor = "Buddy"

\* No size class holds a pair entry whose two buddies are both free.
NoFreePairEntry ==
    \A tc \in SizeClasses :
        LET ba == buddy_allocators[tc[1]][1]
            sz == ba.sizes[tc[2]]
        IN  \A i \in 0..(SlabLen(sz.pairs) - 1) :
                SlabOccupied(sz.pairs, i)
                    => LiveBlockIn(tc[1], SlabGet(sz.pairs, i).chunk,
                                   SlabGet(sz.pairs, i).offset,
                                   ba.minimal_size * Pow2(tc[2]))

\* No buddy allocator holds a chunk without a live block.
NoFreeChunk ==
    \A t \in TypeIdx :
        buddy_allocators[t] # <<>>
            => \A i \in 0..(SlabLen(buddy_allocators[t][1].chunks) - 1) :
                   SlabOccupied(buddy_allocators[t][1].chunks, i)
                       => LiveBlockIn(t, i, 0,
                                      SlabGet(buddy_allocators[t][1].chunks, i).size)

\* C30: after every BuddyAllocator::dealloc no size class holds a pair entry
\* whose two buddies are both free (the entry is removed when its second
\* buddy is released and the release goes on at the parent pair), and no
\* chunk whose top-level pair has coalesced is left in the chunk slab.
C30_CoalescedPairsRemoved ==
    BuddyDeallocReturned => (NoFreePairEntry /\ NoFreeChunk)

\* The pair of block b, in the size class dealloc releases it in, is Ready
\* and records the side of b as the free one.
RecordedFree(b) ==
    /\ b.flavor = "Buddy"
    /\ buddy_allocators[b.memory_type] # <<>>
    /\ ClassOf(b) \in 1..Len(buddy_allocators[b.memory_type][1].sizes)
    /\ LET sz == buddy_allocators[b.memory_type][1].sizes[ClassOf(b)]
       IN  /\ SlabOccupied(sz.pairs, b.index \div 2)
           /\ SlabGet(sz.pairs, b.index \div 2).state = "Ready"
           /\ SideBit(SlabGet(sz.pairs, b.index \div 2).ready) = b.index % 2

\* C31: releasing a buddy block whose side its pair already records as free
\* panics, and up to the panic the size classes, the chunk slab, the heaps,
\* the quota and the device are left as they were.
C31_DoubleFreePanics ==
    \A b \in BagToSet(blocks) :
        RecordedFree(b)
            => /\ dealloc(Current, b).panic
               /\ dealloc(Current, b).bud = buddy_allocators
               /\ dealloc(Current, b).heaps = memory_heaps
               /\ dealloc(Current, b).remains = allocations_remains
               /\ dealloc(Current, b).dev = device

\* A dealloc of such a block was made and panicked.
C31_Witness ==
    /\ last.op = "dealloc"
    /\ last.res = "panic"
    /\ RecordedFree(last.block[1])

\* The last call was the first allocation of an empty buddy allocator, of
\* minimal_size: it had to ask the device for a chunk, which it does only
\* after every size class from the block's class upwards was found without
\* a pair.
FirstFromEmpty ==
    /\ last.op = "alloc"
    /\ last.res = "Ok"
    /\ last.block[1].flavor = "Buddy"
    /\ last.block[1].size = buddy_allocators[last.block[1].memory_type][1].minimal_size
    /\ last.calls = 1

\* C32: starting from an empty buddy allocator, two consecutive allocations
\* of minimal_size are served from the same chunk with one single device
\* allocation, the first at offset 0 and the second at offset minimal_size.
C32_LeftThenRight ==
    [][ (/\ FirstFromEmpty
         /\ last'.op = "alloc"
         /\ last'.request = last.request
         /\ last'.strategy = last.strategy)
            => /\ last.block[1].offset = 0
               /\ last'.res = "Ok"
               /\ last'.calls = 0
               /\ last'.block[1].flavor = "Buddy"
               /\ last'.block[1].memory = last.block[1].memory
               /\ last'.block[1].chunk = last.block[1].chunk
               /\ last'.block[1].offset = last.block[1].size ]_vars

\* The caller has deallocated both minimal blocks of a buddy chunk and holds
\* no other block: the last call released the right buddy of a pair whose
\* left buddy had been released before it.
BothBuddiesFreed ==
    /\ blocks = EmptyBag
    /\ last.op = "dealloc"
    /\ last.res = "Ok"
    /\ last.block[1].flavor = "Buddy"
    /\ last.block[1].size = buddy_allocators[last.block[1].memory_type][1].minimal_size
    /\ last.block[1].index % 2 = 1
    /\ LET sz == buddy_allocators[last.block[1].memory_type][1].sizes[1]
       IN  /\ SlabOccupied(sz.pairs, last.block[1].index \div 2)
           /\ SlabGet(sz.pairs, last.block[1].index \div 2).state = "Ready"
           /\ SlabGet(sz.pairs, last.block[1].index \div 2).ready = "Left"

\* The step is an allocation, by the buddy allocator the two blocks came
\* from, of a block as large as their chunk.
FullChunkAllocated ==
    /\ BothBuddiesFreed
    /\ last'.op = "alloc"
    /\ last'.res = "Ok"
    /\ last'.block[1].flavor = "Buddy"
    /\ last'.block[1].memory_type = last.block[1].memory_type
    /\ last'.block[1].size = device[last.block[1].memory].size

\* C33: after the two minimal blocks of a buddy chunk are both deallocated,
\* a following allocation of the full chunk size is served from the
\* coalesced chunk with no new device allocation.
C33_CoalescedChunkReused ==
    [][ FullChunkAllocated
            => /\ last'.calls = 0
               /\ last'.block[1].memory = last.block[1].memory ]_vars

\* The rounded size BuddyAllocator::alloc of allocator ba gives a request,
\* NoneIdx when the rounding overflows.
BuddySize(ba, size, align_mask) ==
    IF align_up(size, BitOr(align_mask, ba.atom_mask)) = NoneIdx THEN NoneIdx
    ELSE checked_next_power_of_two(align_up(size, BitOr(align_mask, ba.atom_mask)))

\* Whether alloc of ba, given the request, only indexes size classes that
\* exist once it has made its target class s exist: alloc pushes at most
\* one class, so s must not lie beyond the end of sizes.
TargetClassExists(ba, size, align_mask) ==
    \/ BuddySize(ba, size, align_mask) = NoneIdx
    \/ trailing_zeros(BuddySize(ba, size, align_mask)) < trailing_zeros(ba.minimal_size)
    \/ trailing_zeros(BuddySize(ba, size, align_mask)) - trailing_zeros(ba.minimal_size)
           <= Len(ba.sizes)

\* C34: for every request GpuAllocator routes to the buddy allocator (any
\* size up to max_memory_allocation_size), BuddyAllocator::alloc has its
\* target size class in the sizes vector before it walks the classes: no
\* alloc indexes sizes out of bounds.
C34_TargetClassExists ==
    [][ (/\ last'.op = "alloc"
         /\ LastChosen' = "Buddy"
         /\ last'.request.size <= max_memory_allocation_size)
            => \A i \in 1..last'.tried :
                   BuddyAllocatorFor(Current, LastCandidates'[i]) # <<>>
                       => TargetClassExists(
                              BuddyAllocatorFor(Current, LastCandidates'[i])[1],
                              last'.request.size, last'.request.align_mask) ]_vars

\* The last call returned a block of a buddy allocator.
BuddyServed ==
    /\ last.op = "alloc"
    /\ last.res = "Ok"
    /\ last.block[1].flavor = "Buddy"

LinearBlocks == { b \in BagToSet(blocks) : b.flavor = "Linear" }

\* The chunk, as a sequence of length 0 or 1, that dealloc_from_chunks finds
\* for block b: block.chunk - chunks.offset in the stream its pointer
\* selects; <<>> when the index is out of range or the entry is None.
IndexedChunk(b) ==
    LET chunks == linear_allocators[b.memory_type][1][StreamOf(b)]
        index  == b.chunk - chunks.offset
    IN  IF index = Len(chunks.exhausted) THEN chunks.ready
        ELSE IF index >= 0 /\ index < Len(chunks.exhausted)
        THEN chunks.exhausted[index + 1]
        ELSE <<>>

\* The live counts, in the Linear allocators lin, of the chunks (ready or
\* exhausted, in any stream) that hold device memory object m.
ChunkCounts(lin, m) ==
    UNION { UNION { {c[1].allocated :
                        c \in { x \in {lin[t][1][st].ready}
                                      \cup {lin[t][1][st].exhausted[i] :
                                               i \in 1..Len(lin[t][1][st].exhausted)} :
                                  x # <<>> /\ x[1].memory = m }} :
                    st \in Streams } :
            t \in {u \in TypeIdx : lin[u] # <<>>} }

\* The device memory objects held by chunks of the Linear allocators lin.
ChunkMemories(lin) ==
    { m \in 1..MaxObjects : ChunkCounts(lin, m) # {} }

RECURSIVE LiveIn(_)
\* How many blocks the caller holds among the set S of distinct blocks.
LiveIn(S) ==
    IF S = {} THEN 0
    ELSE LET b == CHOOSE x \in S : TRUE
         IN  CopiesIn(b, blocks) + LiveIn(S \ {b})

\* C36: for every Linear block the caller holds, block.chunk minus the
\* offset of the stream selected by the block's pointer indexes a chunk,
\* ready or exhausted, whose memory is the block's memory and whose live
\* count is the number of held blocks of that memory; dealloc of the block
\* returns, lowers the count of that chunk by one (or frees it at count 1
\* when exhausted) and leaves the count of every other chunk as it was.
C36_ChunkIndexFindsMemory ==
    \A b \in LinearBlocks :
        /\ linear_allocators[b.memory_type] # <<>>
        /\ IndexedChunk(b) # <<>>
        /\ IndexedChunk(b)[1].memory = b.memory
        /\ IndexedChunk(b)[1].allocated
              = LiveIn({c \in LinearBlocks : c.memory = b.memory})
        /\ ~dealloc(Current, b).panic
        /\ \A m \in ChunkMemories(linear_allocators) \ {b.memory} :
              ChunkCounts(dealloc(Current, b).lin, m)
                  = ChunkCounts(linear_allocators, m)
        /\ ChunkCounts(dealloc(Current, b).lin, b.memory)
              \in { {IndexedChunk(b)[1].allocated - 1}, {} }
        /\ ChunkCounts(dealloc(Current, b).lin, b.memory) = {}
              => /\ IndexedChunk(b)[1].allocated = 1
                 /\ ~IsReadyChunk(b.memory)

\* A Linear block of an exhausted chunk is held: its chunk is found in the
\* FIFO of its stream, at an index other than the ready one.
C36_Witness ==
    \E b \in LinearBlocks :
        /\ linear_allocators[b.memory_type] # <<>>
        /\ IndexedChunk(b) # <<>>
        /\ ~IsReadyChunk(b.memory)
        /\ b.chunk - linear_allocators[b.memory_type][1][StreamOf(b)].offset
              < Len(linear_allocators[b.memory_type][1][StreamOf(b)].exhausted)

\* The last call was an alloc or alloc_with_strategy that returned an error.
AllocFailed ==
    /\ last.op = "alloc"
    /\ last.res \notin {"Ok", "panic"}

\* C37: after alloc or alloc_with_strategy returns an error, every heap's
\* used value, allocations_remains and the number of outstanding device
\* memory objects are the same as before the call.
C37_FailedCallRestores ==
    AllocFailed =>
        /\ \A h \in HeapIdx : memory_heaps[h].used = last.pre_used[h]
        /\ allocations_remains = last.pre_remains
        /\ Cardinality(LiveObjects) = last.pre_live

\* The last operation was a map, write_bytes or read_bytes of a Dedicated
\* block that called device.map_memory.
DedicatedMapCalled ==
    /\ last.op \in {"map", "write_bytes", "read_bytes"}
    /\ last.pre[1].flavor = "Dedicated"
    /\ last.maps > 0

\* C38: every device.map_memory call issued by map, write_bytes or
\* read_bytes on a Dedicated block requests a range inside the memory
\* object: the device offset plus the device size is at most the block's
\* size, which is the size of the object.
C38_DedicatedRangeInside ==
    DedicatedMapCalled =>
        /\ last.range[1] + last.range[2] <= last.pre[1].size
        /\ last.range[1] + last.range[2] <= device[last.pre[1].memory].size

\* The last operation was a write_bytes or read_bytes on host-visible memory
\* that is not coherent and handed a range to flush_memory_ranges or
\* invalidate_memory_ranges.
SyncedNonCoherent ==
    /\ last.op \in {"write_bytes", "read_bytes"}
    /\ host_visible_non_coherent(memory_types[SyncBlock.memory_type].props)
    /\ SyncCalls > 0

\* C39: the range passed to flush_memory_ranges / invalidate_memory_ranges
\* contains every byte of the memory object that was written or read,
\* [block.offset + offset, block.offset + offset + len).
C39_SyncRangeCovers ==
    (SyncedNonCoherent /\ last.size > 0) =>
        /\ last.flushed[1] <= SyncBlock.offset + last.offset
        /\ SyncBlock.offset + last.offset + last.size
              <= last.flushed[1] + last.flushed[2]

\* The last operation was a map, write_bytes or read_bytes that returned, on
\* a block whose memory type lacks HOST_VISIBLE.
ReturnedOnNonHostVisible ==
    /\ last.op \in {"map", "write_bytes", "read_bytes"}
    /\ last.res # "panic"
    /\ "HOST_VISIBLE" \notin memory_types[last.pre[1].memory_type].props

\* C40: map, write_bytes and read_bytes never call device.map_memory on a
\* memory object whose memory type lacks HOST_VISIBLE: on such a block of
\* any flavor they return MapError::NonHostVisible.
C40_NonHostVisibleNeverMapped ==
    ReturnedOnNonHostVisible =>
        /\ last.maps = 0
        /\ last.res = "NonHostVisible"

====
